---- MODULE Spec2Model ----
(***************************************************************************)
(* wake-me-up: the alert store of cmd/wake-me-up/app.go (AppState), the    *)
(* label matching of cmd/wake-me-up/alert.go and the alarm loop of app.go. *)
(*                                                                         *)
(* Every mutator of AppState (AddWebhook, Acknowledge,                     *)
(* ClearAcknowledgedAndResolved) runs its whole body between a.mu.Lock()   *)
(* and a.mu.Unlock(), so each is one atomic action on the store.  The call *)
(* that follows the unlock (checkAndPlaySound in app.go, broadcastUpdate   *)
(* in the websocket variant) reads the store and writes only the alarm and *)
(* hub fields, never alerts or acknowledged.                               *)
(*                                                                         *)
(* Spec: the store operations; MatchSpec: alertsMatch; AlarmSpec: the      *)
(* requests and the playSoundLoop goroutines; HubSpec: the websocket hub   *)
(* of the variant in Dockerfile; LockSpec: a.mu taken and released step by *)
(* step, with AddWebhook in its three phases.                              *)
(***************************************************************************)
EXTENDS Integers, Sequences, FiniteSets, TLC

\* ---------------------------------------------------------------- bounds
\* Wall-clock readings are 1..MaxClock.
MaxClock == 2
\* A webhook payload carries at most MaxAlerts alerts.
MaxAlerts == 2
\* NewAppState is called with maxSize in 0..MaxMaxSize (main passes 100).
MaxMaxSize == 2

\* ---------------------------------------------------------------- values
\* Alert.Labels is a map[string]string: a function on a finite set of keys.
\* A nil or missing map has len 0, like the empty map.
NoLabels == << >>
LabelsA == [alertname |-> "A"]
LabelsB == [alertname |-> "B"]

\* type Alert (alert.go:5-11); StartsAt, EndsAt and GeneratorURL are carried
\* along unread by the store and are left out.
Alert(status, labels) == [Status |-> status, Labels |-> labels]

\* The alerts a payload of the store specification may carry.  "pending"
\* stands for any status string other than "firing" and "resolved".
PayloadAlerts ==
    { Alert("firing", LabelsA), Alert("firing", LabelsB), Alert("firing", NoLabels),
      Alert("resolved", LabelsA), Alert("resolved", NoLabels),
      Alert("pending", LabelsA) }

\* Sequences of at most n elements of S.
SeqUpTo(S, n) == UNION { [1..k -> S] : k \in 0..n }

\* type WebhookPayload (webhook.go:8-18): only Status and Alerts are read.
Payloads == [Status : {"firing", "resolved"}, Alerts : SeqUpTo(PayloadAlerts, MaxAlerts)]

\* fmt.Sprintf("%d-%d", baseID, i): the pair determines the string and the
\* string determines the pair (i >= 0), so an id is the pair.
EntryID(baseID, i) == <<baseID, i>>

\* The ids an HTTP client may pass to /acknowledge: any string, among them
\* every id the store can assign.
IdArgs == { EntryID(t, i) : t \in 1..MaxClock, i \in 0..(MaxAlerts - 1) }

\* type AlertEntry (webhook.go:21-25).
AlertEntry(baseID, i, timestamp, alert) ==
    [ID |-> EntryID(baseID, i), Timestamp |-> timestamp, Alert |-> alert]

\* ------------------------------------------------------------ alertsMatch
Len0(labels) == Cardinality(DOMAIN labels)

\* alertsMatch without its first test: two empty label mappings match.
alertsMatchEmptyOk(resolvedAlert, firingAlert) ==
    /\ Len0(resolvedAlert.Labels) = Len0(firingAlert.Labels)
    /\ \A key \in DOMAIN resolvedAlert.Labels :
           /\ key \in DOMAIN firingAlert.Labels
           /\ firingAlert.Labels[key] = resolvedAlert.Labels[key]

\* alertsMatch (alert.go:35-64).
alertsMatch(resolvedAlert, firingAlert) ==
    IF Len0(resolvedAlert.Labels) = 0 \/ Len0(firingAlert.Labels) = 0 THEN FALSE
    ELSE IF Len0(resolvedAlert.Labels) # Len0(firingAlert.Labels) THEN FALSE
    ELSE IF \E key \in DOMAIN resolvedAlert.Labels :
                \/ key \notin DOMAIN firingAlert.Labels
                \/ firingAlert.Labels[key] # resolvedAlert.Labels[key] THEN FALSE
    ELSE IF \E key \in DOMAIN firingAlert.Labels :
                \/ key \notin DOMAIN resolvedAlert.Labels
                \/ resolvedAlert.Labels[key] # firingAlert.Labels[key] THEN FALSE
    ELSE TRUE

\* ------------------------------------------------------------------ state
VARIABLES
    alerts,        \* AppState.alerts: the entries, newest first
    acknowledged,  \* AppState.acknowledged: the ids mapped to true
    maxSize,       \* AppState.maxSize
    clock,         \* the latest reading of time.Now() (UnixNano)
    last,          \* the last operation: its input, the store before it, its steps
    mR, mF, mOut,  \* alertsMatch applied to a pair of alerts (MatchSpec)
    soundPlaying,    \* AppState.soundPlaying
    soundStopChan,   \* AppState.soundStopChan: the channels made so far are
                     \* 0..soundStopChan, all but the last one closed
    currentSoundCmd, \* AppState.currentSoundCmd: 0 for nil, else the goroutine
                     \* whose startSound returned the command
    procs,           \* the player process of each playSoundLoop goroutine
    loops,           \* the playSoundLoop goroutines: position and locals
    handlers,        \* the request goroutines: position and locals
    budget,          \* the mutating requests the clients still send
    mu,              \* AppState.mu as a sync.RWMutex: the goroutines with a
                     \* read lock, the goroutine that has called Lock
    ver,             \* the number of mutations of the store completed
    hub,             \* the goroutine Hub.run: position and locals
    clients,         \* Hub.clients: the keys of the map
    send,            \* Client.send of every client: open or closed, buffer
    pubs,            \* the goroutines that mutate and call broadcastUpdate
    conns            \* the websocket connections: position of their goroutines

storeVars == <<alerts, acknowledged, maxSize, clock, last>>
matchVars == <<mR, mF, mOut>>
soundVars == <<soundPlaying, soundStopChan, currentSoundCmd, procs, loops,
               handlers>>
alarmVars == <<soundPlaying, soundStopChan, currentSoundCmd, procs, loops,
               handlers, budget>>
hubVars == <<mu, ver, hub, clients, send, pubs, conns>>
vars == <<storeVars, matchVars, hubVars, alarmVars>>

\* ----------------------------------------------------------- store reads
\* a.acknowledged[id]: true for the ids set, false (the zero value) otherwise.
IsAck(ack, id) == id \in ack

\* The loop with `continue` read as `return false`: it stops at the first
\* acknowledged entry.
RECURSIVE HasUnackStopsAtAck(_, _, _)
HasUnackStopsAtAck(entries, ack, k) ==
    IF k > Len(entries) THEN FALSE
    ELSE IF IsAck(ack, entries[k].ID) THEN FALSE
    ELSE IF entries[k].Alert.Status = "firing" THEN TRUE
    ELSE HasUnackStopsAtAck(entries, ack, k + 1)

\* The loop of HasUnacknowledgedAlerts (app.go:191-199) from entry k on.
RECURSIVE HasUnackFrom(_, _, _)
HasUnackFrom(entries, ack, k) ==
    IF k > Len(entries) THEN FALSE
    ELSE IF IsAck(ack, entries[k].ID) THEN HasUnackFrom(entries, ack, k + 1)
    ELSE IF entries[k].Alert.Status = "firing" THEN TRUE
    ELSE HasUnackFrom(entries, ack, k + 1)

\* HasUnacknowledgedAlerts (app.go:187-200) on a given store.
HasUnack(entries, ack) == HasUnackFrom(entries, ack, 1)

HasUnacknowledgedAlerts == HasUnack(alerts, acknowledged)

\* ------------------------------------------------------- reconciliation
\* hasResolvedAlerts (app.go:85-92).
hasResolvedAlerts(as) == \E k \in 1..Len(as) : as[k].Status = "resolved"

\* The inner loop of removeMatchingFiringAlerts (app.go:119-128): the index in
\* resolved of the first alert that matches the entry, 0 if the entry is not
\* firing or nothing matches.
RECURSIVE FirstMatchFrom(_, _, _)
FirstMatchFrom(resolved, entry, j) ==
    IF j > Len(resolved) THEN 0
    ELSE IF alertsMatch(resolved[j], entry.Alert) THEN j
    ELSE FirstMatchFrom(resolved, entry, j + 1)

\* FirstMatch without the status test of app.go:119.
FirstMatchAnyStatus(resolved, entry) == FirstMatchFrom(resolved, entry, 1)

FirstMatch(resolved, entry) ==
    IF entry.Alert.Status = "firing" THEN FirstMatchFrom(resolved, entry, 1) ELSE 0

\* The outer loop of removeMatchingFiringAlerts (app.go:114-139) from entry k on.
\* acc: filtered (the entries kept), ack (a.acknowledged), matched
\* (matchedResolvedAlerts), removed (the positions in entries removed).
RECURSIVE FilterLoop(_, _, _, _)
FilterLoop(entries, resolved, k, acc) ==
    IF k > Len(entries) THEN acc
    ELSE LET entry == entries[k]
             j == FirstMatch(resolved, entry)
         IN  IF j = 0
             THEN FilterLoop(entries, resolved, k + 1,
                      [acc EXCEPT !.filtered = Append(@, entry)])
             ELSE FilterLoop(entries, resolved, k + 1,
                      [acc EXCEPT !.ack = @ \ {entry.ID},
                                  !.matched = Append(@, resolved[j]),
                                  !.removed = @ \cup {k}])

\* removeMatchingFiringAlerts (app.go:96-143).
removeMatchingFiringAlerts(entries, ack, resolvedAlerts) ==
    LET resolved == SelectSeq(resolvedAlerts, LAMBDA a : a.Status = "resolved")
    IN  IF Len(resolved) = 0
        THEN [filtered |-> entries, ack |-> ack, matched |-> << >>, removed |-> {}]
        ELSE FilterLoop(entries, resolved, 1,
                 [filtered |-> << >>, ack |-> ack, matched |-> << >>, removed |-> {}])

\* ------------------------------------------------------------- AddWebhook
\* Matched that is satisfied by any recorded match, whatever its labels.
MatchedAny(alert, matched) == Len(matched) > 0

\* for _, matchedAlert := range matchedResolvedAlerts (app.go:52-58).
Matched(alert, matched) ==
    \E m \in 1..Len(matched) : alertsMatch(alert, matched[m])

\* Accepts that drops every resolved alert, and Accepts that keeps every alert.
AcceptsUnresolvedOnly(alert, matched) == alert.Status # "resolved"
AcceptsAll(alert, matched) == TRUE

\* Whether the insertion loop keeps payload alert number i (app.go:50-64).
Accepts(alert, matched) ==
    IF alert.Status = "resolved" THEN Matched(alert, matched) ELSE TRUE

\* The insertion loop of AddWebhook (app.go:48-72) from payload alert i on (i
\* counts from 1, Go's index is i - 1).  acc: list (a.alerts), accepted (the
\* Go indices of the alerts that became entries, in order).
\* The insertion loop that appends each new entry instead of prepending it.
RECURSIVE InsertLoopAppends(_, _, _, _, _)
InsertLoopAppends(payloadAlerts, matched, now, i, acc) ==
    IF i > Len(payloadAlerts) THEN acc
    ELSE LET alert == payloadAlerts[i]
         IN  IF ~Accepts(alert, matched)
             THEN InsertLoopAppends(payloadAlerts, matched, now, i + 1, acc)
             ELSE InsertLoopAppends(payloadAlerts, matched, now, i + 1,
                      [list |-> Append(acc.list, AlertEntry(now, i - 1, now, alert)),
                       accepted |-> Append(acc.accepted, i - 1)])

RECURSIVE InsertLoop(_, _, _, _, _)
InsertLoop(payloadAlerts, matched, now, i, acc) ==
    IF i > Len(payloadAlerts) THEN acc
    ELSE LET alert == payloadAlerts[i]
         IN  IF ~Accepts(alert, matched)
             THEN InsertLoop(payloadAlerts, matched, now, i + 1, acc)
             ELSE InsertLoop(payloadAlerts, matched, now, i + 1,
                      [list |-> <<AlertEntry(now, i - 1, now, alert)>> \o acc.list,
                       accepted |-> Append(acc.accepted, i - 1)])

\* Truncate that keeps the tail, the oldest entries.
TruncateKeepsOldest(list, size) ==
    IF Len(list) > size THEN SubSeq(list, Len(list) - size + 1, Len(list)) ELSE list

\* Truncate that keeps one entry too many.
TruncateOffByOne(list, size) ==
    IF Len(list) > size + 1 THEN SubSeq(list, 1, size + 1) ELSE list

\* a.alerts = a.alerts[:a.maxSize] when longer (app.go:75-77).
Truncate(list, size) ==
    IF Len(list) > size THEN SubSeq(list, 1, size) ELSE list

\* AddWebhook with a second reconciliation pass after the insertion loop, so
\* that the resolved alerts also remove the firing entries of their own
\* payload.
AddWebhookResultMatchesBatch(entries, ack, size, payload, now) ==
    LET rec == IF payload.Status = "resolved" \/ hasResolvedAlerts(payload.Alerts)
               THEN removeMatchingFiringAlerts(entries, ack, payload.Alerts)
               ELSE [filtered |-> entries, ack |-> ack, matched |-> << >>, removed |-> {}]
        ins == InsertLoop(payload.Alerts, rec.matched, now, 1,
                   [list |-> rec.filtered, accepted |-> << >>])
        again == removeMatchingFiringAlerts(ins.list, rec.ack, payload.Alerts)
    IN  [alerts |-> Truncate(again.filtered, size),
         acknowledged |-> again.ack,
         removed |-> rec.removed,
         matched |-> rec.matched,
         accepted |-> ins.accepted,
         untruncated |-> again.filtered]

\* The locked part of AddWebhook (app.go:34-78) on a given store, with the
\* clock reading now: the store after it and the steps it took.
AddWebhookResult(entries, ack, size, payload, now) ==
    LET rec == IF payload.Status = "resolved" \/ hasResolvedAlerts(payload.Alerts)
               THEN removeMatchingFiringAlerts(entries, ack, payload.Alerts)
               ELSE [filtered |-> entries, ack |-> ack, matched |-> << >>, removed |-> {}]
        ins == InsertLoop(payload.Alerts, rec.matched, now, 1,
                   [list |-> rec.filtered, accepted |-> << >>])
    IN  [alerts |-> Truncate(ins.list, size),
         acknowledged |-> rec.ack,
         removed |-> rec.removed,
         matched |-> rec.matched,
         accepted |-> ins.accepted,
         untruncated |-> ins.list]

\* The record of an operation kept in last.
NoPayload == << >>
OpRecord(op, payloadAlerts, id, res, count) ==
    [op |-> op,
     payload |-> payloadAlerts,      \* AddWebhook: payload.Alerts
     id |-> id,                      \* Acknowledge: alertID
     alerts0 |-> alerts,             \* a.alerts when the lock was taken
     ack0 |-> acknowledged,          \* a.acknowledged when the lock was taken
     removed |-> res.removed,        \* positions of alerts0 the operation removed
     matched |-> res.matched,        \* AddWebhook: matchedResolvedAlerts
     accepted |-> res.accepted,      \* AddWebhook: Go indices that became entries
     untruncated |-> res.untruncated,\* AddWebhook: a.alerts before truncation
     count |-> count]                \* ClearAcknowledgedAndResolved: return value

NoSteps == [removed |-> {}, matched |-> << >>, accepted |-> << >>, untruncated |-> << >>]

\* AddWebhook (app.go:33-82).  time.Now() is read under the lock; the wall
\* clock does not run backwards here, but two readings may be equal.
AddWebhook ==
    \E payload \in Payloads, now \in clock..MaxClock :
        LET res == AddWebhookResult(alerts, acknowledged, maxSize, payload, now)
        IN  /\ last.op = "none"
            /\ alerts' = res.alerts
            /\ acknowledged' = res.acknowledged
            /\ clock' = now
            /\ last' = OpRecord("AddWebhook", payload.Alerts, << >>, res, 0)
            /\ UNCHANGED <<maxSize, matchVars, hubVars, alarmVars>>

\* ------------------------------------------------------------ Acknowledge
\* Acknowledge that flips the flag: a second call withdraws the first.
AcknowledgeToggles ==
    \E alertID \in IdArgs :
        /\ last.op = "none"
        /\ acknowledged' = IF alertID \in acknowledged
                           THEN acknowledged \ {alertID}
                           ELSE acknowledged \cup {alertID}
        /\ last' = OpRecord("Acknowledge", NoPayload, alertID, NoSteps, 0)
        /\ UNCHANGED <<alerts, maxSize, clock, matchVars, hubVars, alarmVars>>

\* Acknowledge that also takes the acknowledged entries out of the list.
AcknowledgeRemoves ==
    \E alertID \in IdArgs :
        /\ last.op = "none"
        /\ acknowledged' = acknowledged \cup {alertID}
        /\ alerts' = SelectSeq(alerts, LAMBDA e : e.ID # alertID)
        /\ last' = OpRecord("Acknowledge", NoPayload, alertID, NoSteps, 0)
        /\ UNCHANGED <<maxSize, clock, matchVars, hubVars, alarmVars>>

\* Acknowledge (app.go:208-216).
Acknowledge ==
    \E alertID \in IdArgs :
        /\ last.op = "none"
        /\ acknowledged' = acknowledged \cup {alertID}
        /\ last' = OpRecord("Acknowledge", NoPayload, alertID, NoSteps, 0)
        /\ UNCHANGED <<alerts, maxSize, clock, matchVars, hubVars, alarmVars>>

\* ------------------------------------------- ClearAcknowledgedAndResolved
\* The clear loop that counts only the acknowledged entries it removes.
RECURSIVE ClearLoopMiscounts(_, _, _)
ClearLoopMiscounts(entries, k, acc) ==
    IF k > Len(entries) THEN acc
    ELSE LET entry == entries[k]
             isAcknowledged == IsAck(acc.ack, entry.ID)
         IN  IF entry.Alert.Status = "firing" /\ ~isAcknowledged
             THEN ClearLoopMiscounts(entries, k + 1,
                      [acc EXCEPT !.filtered = Append(@, entry)])
             ELSE ClearLoopMiscounts(entries, k + 1,
                      [acc EXCEPT !.ack = @ \ {entry.ID},
                                  !.clearedCount = IF isAcknowledged THEN @ + 1 ELSE @,
                                  !.removed = @ \cup {k}])

\* The loop of ClearAcknowledgedAndResolved (app.go:224-235) from entry k on.
RECURSIVE ClearLoop(_, _, _)
ClearLoop(entries, k, acc) ==
    IF k > Len(entries) THEN acc
    ELSE LET entry == entries[k]
             isAcknowledged == IsAck(acc.ack, entry.ID)
         IN  IF entry.Alert.Status = "firing" /\ ~isAcknowledged
             THEN ClearLoop(entries, k + 1, [acc EXCEPT !.filtered = Append(@, entry)])
             ELSE ClearLoop(entries, k + 1,
                      [acc EXCEPT !.ack = @ \ {entry.ID},
                                  !.clearedCount = @ + 1,
                                  !.removed = @ \cup {k}])

\* The locked part of ClearAcknowledgedAndResolved (app.go:219-239) on a
\* given store.
ClearResult(entries, ack) ==
    ClearLoop(entries, 1,
        [filtered |-> << >>, ack |-> ack, clearedCount |-> 0, removed |-> {}])

\* ClearAcknowledgedAndResolved (app.go:218-245).
ClearAcknowledgedAndResolved ==
    LET res == ClearLoop(alerts, 1,
                   [filtered |-> << >>, ack |-> acknowledged, clearedCount |-> 0,
                    removed |-> {}])
    IN  /\ last.op = "none"
        /\ alerts' = res.filtered
        /\ acknowledged' = res.ack
        /\ last' = OpRecord("Clear", NoPayload, << >>,
                       [NoSteps EXCEPT !.removed = res.removed], res.clearedCount)
        /\ UNCHANGED <<maxSize, clock, matchVars, hubVars, alarmVars>>

\* -------------------------------------------------------------- GetAlerts
\* getAlertPriority with the two firing bands exchanged.
getAlertPriorityAckFirst(status, isAcknowledged) ==
    IF status = "firing" /\ ~isAcknowledged THEN 1
    ELSE IF status = "firing" /\ isAcknowledged THEN 0
    ELSE 2

\* getAlertPriority (app.go:177-185).
getAlertPriority(status, isAcknowledged) ==
    IF status = "firing" /\ ~isAcknowledged THEN 0
    ELSE IF status = "firing" /\ isAcknowledged THEN 1
    ELSE 2

\* The less function handed to sort.Slice (app.go:153-170), on two entries.
SortLess(iEntry, jEntry, ack) ==
    LET iPriority == getAlertPriority(iEntry.Alert.Status, IsAck(ack, iEntry.ID))
        jPriority == getAlertPriority(jEntry.Alert.Status, IsAck(ack, jEntry.ID))
    IN  IF iPriority # jPriority THEN iPriority < jPriority
        ELSE iEntry.Timestamp > jEntry.Timestamp

\* The permutations of 1..n.
Perms(n) == { p \in [1..n -> 1..n] : \A i, j \in 1..n : i # j => p[i] # p[j] }

\* What sort.Slice may leave in result (app.go:149-172): sort.Slice is not
\* stable, so any arrangement of the copy in which no element is less than
\* one before it.
SortedCopies(entries, ack) ==
    { r \in { [k \in 1..Len(entries) |-> entries[p[k]]] : p \in Perms(Len(entries)) } :
        \A i, j \in 1..Len(r) : i < j => ~SortLess(r[j], r[i], ack) }

\* GetAlerts (app.go:145-173): under the read lock it copies a.alerts, sorts
\* the copy and returns it; the store is not written.
GetAlerts ==
    \E result \in SortedCopies(alerts, acknowledged) :
        /\ last.op = "none"
        /\ last' = OpRecord("GetAlerts", NoPayload, << >>, NoSteps, 0)
                       @@ [result |-> result]
        /\ UNCHANGED <<alerts, acknowledged, maxSize, clock, matchVars, hubVars, alarmVars>>

\* ------------------------------------------------- alarm: values at rest
\* A playSoundLoop goroutine: where it is, the stopChan it captured
\* (app.go:311) and its local cmd (app.go:338: TRUE for a started command,
\* FALSE for nil).
NoLoop == [pc |-> "none", stopChan |-> 0, cmd |-> FALSE]

\* A request goroutine: where it is and the hasUnacknowledged local of
\* checkAndPlaySound (app.go:278).
NoHandler == [pc |-> "idle", hasUnacknowledged |-> FALSE]

\* The alarm fields as NewAppState leaves them (app.go:25-30), no goroutine
\* started and no request to come.
AlarmIdle ==
    /\ soundPlaying = FALSE
    /\ soundStopChan = 0
    /\ currentSoundCmd = 0
    /\ procs = << >>
    /\ loops = << >>
    /\ handlers = << >>
    /\ budget = 0

\* --------------------------------------------------- hub: values at rest
\* The websocket variant of AppState (src/Dockerfile:34-516) has a hub and no
\* alarm; in the runs without it the hub fields rest.
HubIdle ==
    /\ mu = [readers |-> {}, writer |-> 0]
    /\ ver = 0
    /\ hub = << >>
    /\ clients = {}
    /\ send = << >>
    /\ pubs = << >>
    /\ conns = << >>

\* ---------------------------------------------------------- specification
NoOp == [op |-> "none", payload |-> NoPayload, id |-> << >>, alerts0 |-> << >>,
         ack0 |-> {}, removed |-> {}, matched |-> << >>, accepted |-> << >>, untruncated |-> << >>,
         count |-> 0]

NoMatchOut == [done |-> FALSE, fwd |-> FALSE, rev |-> FALSE]

\* The store specification applies alertsMatch inside AddWebhook only.
MatchIdle == /\ mR = Alert("firing", NoLabels)
             /\ mF = Alert("firing", NoLabels)
             /\ mOut = NoMatchOut

\* NewAppState (app.go:24-31).
Init ==
    /\ alerts = << >>
    /\ acknowledged = {}
    /\ maxSize \in 0..MaxMaxSize
    /\ clock = 1
    /\ last = NoOp
    /\ MatchIdle
    /\ AlarmIdle
    /\ HubIdle

\* The handler of the last request has returned (app.go:397-401, 418-420,
\* 431-433): the record of its steps is dropped and the next request is served.
\* The store lock serialises the requests, so the records never overlap.
Return ==
    /\ last.op # "none"
    /\ last' = NoOp
    /\ UNCHANGED <<alerts, acknowledged, maxSize, clock, matchVars, hubVars, alarmVars>>

Next ==
    \/ AddWebhook
    \/ Acknowledge
    \/ ClearAcknowledgedAndResolved
    \/ GetAlerts
    \/ Return

Spec == Init /\ [][Next]_vars

\* ------------------------------------------------- alertsMatch on its own
\* Label mappings over two keys and two values, the empty mapping included.
MatchKeys == {"alertname", "severity"}
MatchValues == {"A", "B"}
LabelMaps == UNION { [D -> MatchValues] : D \in SUBSET MatchKeys }
MatchAlerts == { Alert(st, l) : st \in {"firing", "resolved"}, l \in LabelMaps }

StoreIdle ==
    /\ alerts = << >>
    /\ acknowledged = {}
    /\ maxSize = 0
    /\ clock = 1
    /\ last = NoOp

MatchInit ==
    /\ mR \in MatchAlerts
    /\ mF \in MatchAlerts
    /\ mOut = NoMatchOut
    /\ StoreIdle
    /\ AlarmIdle
    /\ HubIdle

\* alertsMatch(mR, mF) and, with the arguments exchanged, alertsMatch(mF, mR).
ApplyMatch ==
    /\ ~mOut.done
    /\ mOut' = [done |-> TRUE, fwd |-> alertsMatch(mR, mF), rev |-> alertsMatch(mF, mR)]
    /\ UNCHANGED <<mR, mF, storeVars, hubVars, alarmVars>>

MatchNext == ApplyMatch

MatchSpec == MatchInit /\ [][MatchNext]_vars

\* ------------------------------------------------------------------ alarm
\* checkAndPlaySound and playSoundLoop (app.go:277-382) with the requests that
\* call them.  The HTTP server runs every request in a goroutine of its own
\* and every `go a.playSoundLoop()` starts another; a step is what a goroutine
\* does while it holds a.mu, or one channel or process operation outside it.

\* The mutating requests of a run.
MaxOps == 4
\* The requests served at the same time.
NumHandlers == 2
\* NewAppState(maxSize) of the runs with the alarm.
AlarmMaxSize == 1

Handlers == 1..NumHandlers
\* A request calls checkAndPlaySound once and that starts at most one
\* playSoundLoop goroutine (app.go:299-301).
Loops == 1..MaxOps

\* The notifications sent in these runs: one alert, firing or resolved.
AlarmPayloads ==
    { [Status |-> "firing", Alerts |-> <<Alert("firing", LabelsA)>>],
      [Status |-> "resolved", Alerts |-> <<Alert("resolved", LabelsA)>>] }

\* The ids acknowledged in these runs: those AddWebhook assigns to the one
\* alert of a notification.
AlarmIdArgs == { EntryID(t, 0) : t \in 1..MaxClock }

\* NewAppState (app.go:24-31) and the goroutines before the first request.
AlarmInit ==
    /\ alerts = << >>
    /\ acknowledged = {}
    /\ maxSize = AlarmMaxSize
    /\ clock = 1
    /\ last = NoOp
    /\ MatchIdle
    /\ soundPlaying = FALSE
    /\ soundStopChan = 0
    /\ currentSoundCmd = 0
    /\ procs = [l \in Loops |-> "none"]
    /\ loops = [l \in Loops |-> NoLoop]
    /\ handlers = [h \in Handlers |-> NoHandler]
    /\ budget \in 1..MaxOps
    /\ HubIdle

\* The stop channel is closed and never replaced: every goroutine holds the
\* one channel, closed since the first stop.
ClosedNeverReplaced(stopChan) == soundStopChan > 0

\* <-stopChan is ready: the channel has been closed (app.go:284).
Closed(stopChan) == stopChan < soundStopChan

\* cmd.Process.Kill() (app.go:289, 330, 360): ends the process if it runs.
Kill(ps, c) == IF ps[c] = "running" THEN [ps EXCEPT ![c] = "ended"] ELSE ps

\* if a.currentSoundCmd != nil && a.currentSoundCmd.Process != nil { Kill }
\* (app.go:288-293, 329-332, 359-362).
KillCurrent == IF currentSoundCmd # 0 THEN Kill(procs, currentSoundCmd) ELSE procs

\* A request starts: the handler is entered with budget to spend.
Serving(h) == handlers[h].pc = "idle" /\ budget > 0
Served(h) ==
    /\ handlers' = [handlers EXCEPT ![h].pc = "read"]
    /\ budget' = budget - 1
    /\ UNCHANGED <<maxSize, last, matchVars, hubVars, soundPlaying, soundStopChan,
                   currentSoundCmd, procs, loops>>

\* webhookHandler (app.go:384-403) up to the unlock in AddWebhook
\* (app.go:34-79); checkAndPlaySound (app.go:81) is still to run.
webhookHandler(h) ==
    /\ Serving(h)
    /\ \E payload \in AlarmPayloads, now \in clock..MaxClock :
          LET res == AddWebhookResult(alerts, acknowledged, maxSize, payload, now)
          IN  /\ alerts' = res.alerts
              /\ acknowledged' = res.acknowledged
              /\ clock' = now
    /\ Served(h)

\* acknowledgeHandler (app.go:405-422) up to the unlock in Acknowledge
\* (app.go:209-211).
acknowledgeHandler(h) ==
    /\ Serving(h)
    /\ \E alertID \in AlarmIdArgs : acknowledged' = acknowledged \cup {alertID}
    /\ UNCHANGED <<alerts, clock>>
    /\ Served(h)

\* clearHandler (app.go:424-435) up to the unlock in
\* ClearAcknowledgedAndResolved (app.go:219-239).
clearHandler(h) ==
    /\ Serving(h)
    /\ alerts' = ClearResult(alerts, acknowledged).filtered
    /\ acknowledged' = ClearResult(alerts, acknowledged).ack
    /\ UNCHANGED clock
    /\ Served(h)

\* checkAndPlaySound, app.go:278: hasUnacknowledged is read under a read
\* lock of its own.
checkAndPlaySoundRead(h) ==
    /\ handlers[h].pc = "read"
    /\ handlers' = [handlers EXCEPT
                       ![h] = [pc |-> "locked",
                               hasUnacknowledged |-> HasUnacknowledgedAlerts]]
    /\ UNCHANGED <<storeVars, matchVars, hubVars, soundPlaying, soundStopChan,
                   currentSoundCmd, procs, loops, budget>>

\* The goroutine `go a.playSoundLoop()` starts (app.go:300).
FreeLoop ==
    CHOOSE l \in Loops :
        loops[l].pc = "none" /\ \A m \in Loops : m < l => loops[m].pc # "none"

\* A stop decision that forgets to clear soundPlaying.
StopKeepsFlag(stop) == soundPlaying

\* a.soundPlaying after the stop branch of checkAndPlaySound (app.go:295).
StopFlag(stop) == IF stop THEN FALSE ELSE soundPlaying

\* checkAndPlaySound, app.go:280-301: the locked decision on the value read
\* before, and the start of the loop goroutine after the unlock.
checkAndPlaySoundLocked(h) ==
    /\ handlers[h].pc = "locked"
    /\ LET hasUnacknowledged == handlers[h].hasUnacknowledged
           shouldPlay == hasUnacknowledged /\ ~soundPlaying
           stop == ~hasUnacknowledged /\ soundPlaying
       IN  /\ soundStopChan' = IF stop THEN soundStopChan + 1 ELSE soundStopChan
           /\ procs' = IF stop THEN KillCurrent ELSE procs
           /\ currentSoundCmd' = IF stop THEN 0 ELSE currentSoundCmd
           /\ soundPlaying' = StopFlag(stop)
           /\ loops' = IF shouldPlay THEN [loops EXCEPT ![FreeLoop].pc = "guard"]
                       ELSE loops
    /\ handlers' = [handlers EXCEPT ![h] = NoHandler]
    /\ UNCHANGED <<storeVars, matchVars, hubVars, budget>>

\* playSoundLoop returns: its locals are gone.
Returned == [NoLoop EXCEPT !.pc = "done"]

\* playSoundLoop, app.go:305-312: the guard on soundPlaying.
playSoundLoopGuard(l) ==
    /\ loops[l].pc = "guard"
    /\ IF soundPlaying
       THEN /\ loops' = [loops EXCEPT ![l] = Returned]
            /\ UNCHANGED soundPlaying
       ELSE /\ soundPlaying' = TRUE
            /\ loops' = [loops EXCEPT ![l].pc = "poll", ![l].stopChan = soundStopChan]
    /\ UNCHANGED <<storeVars, matchVars, hubVars, soundStopChan, currentSoundCmd, procs,
                   handlers, budget>>

\* playSoundLoop, app.go:318-323: the select with a default case.
playSoundLoopPoll(l) ==
    /\ loops[l].pc = "poll"
    /\ loops' = [loops EXCEPT ![l] = IF Closed(loops[l].stopChan) THEN Returned
                                     ELSE [@ EXCEPT !.pc = "check"]]
    /\ UNCHANGED <<storeVars, matchVars, hubVars, soundPlaying, soundStopChan,
                   currentSoundCmd, procs, handlers, budget>>

\* playSoundLoop, app.go:326: HasUnacknowledgedAlerts under its read lock.
playSoundLoopCheck(l) ==
    /\ loops[l].pc = "check"
    /\ loops' = [loops EXCEPT ![l].pc = IF HasUnacknowledgedAlerts THEN "start"
                                        ELSE "quit"]
    /\ UNCHANGED <<storeVars, matchVars, hubVars, soundPlaying, soundStopChan,
                   currentSoundCmd, procs, handlers, budget>>

\* playSoundLoop, app.go:327-334: nothing left to announce.
playSoundLoopQuit(l) ==
    /\ loops[l].pc = "quit"
    /\ soundPlaying' = FALSE
    /\ procs' = KillCurrent
    /\ currentSoundCmd' = 0
    /\ loops' = [loops EXCEPT ![l] = Returned]
    /\ UNCHANGED <<storeVars, matchVars, hubVars, soundStopChan, handlers, budget>>

\* playSoundLoop, app.go:338, and startSound (app.go:247-275): a player is
\* started, or nil is returned because no player is installed (the bell is
\* rung instead) or cmd.Start failed.
playSoundLoopStart(l) ==
    /\ loops[l].pc = "start"
    /\ \E started \in BOOLEAN :
          /\ procs' = IF started THEN [procs EXCEPT ![l] = "running"] ELSE procs
          /\ loops' = [loops EXCEPT ![l].cmd = started,
                                    ![l].pc = IF started THEN "store" ELSE "wait"]
    /\ UNCHANGED <<storeVars, matchVars, hubVars, soundPlaying, soundStopChan,
                   currentSoundCmd, handlers, budget>>

\* playSoundLoop, app.go:339-343: the command becomes the current one.
playSoundLoopStore(l) ==
    /\ loops[l].pc = "store"
    /\ currentSoundCmd' = l
    /\ loops' = [loops EXCEPT ![l].pc = "wait"]
    /\ UNCHANGED <<storeVars, matchVars, hubVars, soundPlaying, soundStopChan, procs,
                   handlers, budget>>

\* soundDone gets its value from cmd.Wait() only: nothing is sent for a nil
\* cmd.
SoundDoneNeedsProcess(l) == procs[l] = "ended"

\* soundDone has a value (app.go:345-353): cmd.Wait() has returned because
\* the process ended, or cmd was nil.
SoundDone(l) == ~loops[l].cmd \/ procs[l] = "ended"

\* playSoundLoop, app.go:356-365: the stop case of the select.
playSoundLoopWaitStop(l) ==
    /\ loops[l].pc = "wait"
    /\ Closed(loops[l].stopChan)
    /\ procs' = KillCurrent
    /\ currentSoundCmd' = 0
    /\ loops' = [loops EXCEPT ![l] = Returned]
    /\ UNCHANGED <<storeVars, matchVars, hubVars, soundPlaying, soundStopChan, handlers,
                   budget>>

\* playSoundLoop, app.go:366-370: the soundDone case of the select; cmd.Wait
\* has reaped the process.
playSoundLoopWaitDone(l) ==
    /\ loops[l].pc = "wait"
    /\ SoundDone(l)
    /\ currentSoundCmd' = 0
    /\ procs' = [procs EXCEPT ![l] = "none"]
    /\ loops' = [loops EXCEPT ![l].pc = "sleep", ![l].cmd = FALSE]
    /\ UNCHANGED <<storeVars, matchVars, hubVars, soundPlaying, soundStopChan, handlers,
                   budget>>

\* playSoundLoop, app.go:375-377: stopped during the pause.
playSoundLoopSleepStop(l) ==
    /\ loops[l].pc = "sleep"
    /\ Closed(loops[l].stopChan)
    /\ loops' = [loops EXCEPT ![l] = Returned]
    /\ UNCHANGED <<storeVars, matchVars, hubVars, soundPlaying, soundStopChan,
                   currentSoundCmd, procs, handlers, budget>>

\* playSoundLoop, app.go:378-380: the two seconds are over.
playSoundLoopSleepOver(l) ==
    /\ loops[l].pc = "sleep"
    /\ loops' = [loops EXCEPT ![l].pc = "poll"]
    /\ UNCHANGED <<storeVars, matchVars, hubVars, soundPlaying, soundStopChan,
                   currentSoundCmd, procs, handlers, budget>>

\* The player reaches the end of the sound file and exits (the command lines
\* of app.go:253-262 play the file once).
ProcessExit(l) ==
    /\ procs[l] = "running"
    /\ procs' = [procs EXCEPT ![l] = "ended"]
    /\ UNCHANGED <<storeVars, matchVars, hubVars, soundPlaying, soundStopChan,
                   currentSoundCmd, loops, handlers, budget>>

\* The steps of one playSoundLoop goroutine.
playSoundLoop(l) ==
    \/ playSoundLoopGuard(l)
    \/ playSoundLoopPoll(l)
    \/ playSoundLoopCheck(l)
    \/ playSoundLoopQuit(l)
    \/ playSoundLoopStart(l)
    \/ playSoundLoopStore(l)
    \/ playSoundLoopWaitStop(l)
    \/ playSoundLoopWaitDone(l)
    \/ playSoundLoopSleepStop(l)
    \/ playSoundLoopSleepOver(l)

\* The steps of checkAndPlaySound in one request.
checkAndPlaySound(h) == checkAndPlaySoundRead(h) \/ checkAndPlaySoundLocked(h)

AlarmNext ==
    \/ \E h \in Handlers : webhookHandler(h)
    \/ \E h \in Handlers : acknowledgeHandler(h)
    \/ \E h \in Handlers : clearHandler(h)
    \/ \E h \in Handlers : checkAndPlaySound(h)
    \/ \E l \in Loops : playSoundLoop(l)
    \/ \E l \in Loops : ProcessExit(l)

AlarmSpec == AlarmInit /\ [][AlarmNext]_vars

\* The Go scheduler runs every goroutine that can take a step, time.After
\* fires and a started player ends: weak fairness of every request's
\* checkAndPlaySound, of every loop goroutine and of every process.  The
\* clients are not obliged to send requests.
AlarmFairSpec ==
    /\ AlarmSpec
    /\ \A h \in Handlers : WF_vars(checkAndPlaySound(h))
    /\ \A l \in Loops : WF_vars(playSoundLoop(l))
    /\ \A l \in Loops : WF_vars(ProcessExit(l))

\* -------------------------------------------------------------------- hub
\* The websocket variant of app.go (src/Dockerfile:34-516): mutators that end
\* with broadcastUpdate, the goroutine Hub.run and the clients' goroutines.
\* A message is identified by the number of completed mutations (ver) of the
\* store it is a snapshot of.

\* The goroutines that serve mutating requests or publish at the same time.
NumPublishers == 2
\* The websocket connections made in a run.
NumClients == 2
\* The capacity of Client.send (256 in src/Dockerfile:286).
SendCap == 1
\* The mutating requests of a run.
MaxPublishes == 2

Publishers == 1..NumPublishers
Clients == 1..NumClients

NoPublisher == [pc |-> "idle", snapshot |-> 0]
NoConn == [pc |-> "none", writePump |-> FALSE, initial |-> FALSE]
HubSelect == [pc |-> "select", message |-> 0, todo |-> {}, client |-> 0, received |-> 0]

\* NewAppState and newHub (src/Dockerfile:106-126): `go hub.run()` has
\* reached its select, no connection yet.
HubInit ==
    /\ StoreIdle
    /\ MatchIdle
    /\ soundPlaying = FALSE
    /\ soundStopChan = 0
    /\ currentSoundCmd = 0
    /\ procs = << >>
    /\ loops = << >>
    /\ handlers = << >>
    /\ budget = MaxPublishes
    /\ mu = [readers |-> {}, writer |-> 0]
    /\ ver = 0
    /\ hub = HubSelect
    /\ clients = {}
    /\ send = [c \in Clients |-> [open |-> TRUE, buf |-> << >>]]
    /\ pubs = [p \in Publishers |-> NoPublisher]
    /\ conns = [c \in Clients |-> NoConn]

\* What the steps of the hub runs leave alone.
HubFrame == UNCHANGED <<storeVars, matchVars, soundVars>>

\* sync.RWMutex: RLock returns at once unless a goroutine has called Lock and
\* not yet Unlock; a goroutine in Lock waits for the read locks to be released.
CanRLock == mu.writer = 0

\* A mutating request arrives: webhookHandler, acknowledgeHandler or
\* clearHandler (src/Dockerfile:575-626) is about to call a.mu.Lock().
Request(p) ==
    /\ pubs[p].pc = "idle"
    /\ budget > 0
    /\ budget' = budget - 1
    /\ pubs' = [pubs EXCEPT ![p].pc = "lock"]
    /\ UNCHANGED <<mu, ver, hub, clients, send, conns>>
    /\ HubFrame

\* a.mu.Lock() (src/Dockerfile:303, 478, 488), first half: the goroutine is
\* the writer that new read locks wait for.
LockAnnounce(p) ==
    /\ pubs[p].pc = "lock"
    /\ mu.writer = 0
    /\ mu' = [mu EXCEPT !.writer = p]
    /\ pubs' = [pubs EXCEPT ![p].pc = "wait"]
    /\ UNCHANGED <<ver, hub, clients, send, conns, budget>>
    /\ HubFrame

\* a.mu.Lock(), second half, when the read locks are released; the locked
\* body of AddWebhook, Acknowledge or ClearAcknowledgedAndResolved
\* (src/Dockerfile:303-346, 478-481, 488-508) and a.mu.Unlock().
Mutate(p) ==
    /\ pubs[p].pc = "wait"
    /\ mu.writer = p
    /\ mu.readers = {}
    /\ ver' = ver + 1
    /\ mu' = [mu EXCEPT !.writer = 0]
    /\ pubs' = [pubs EXCEPT ![p].pc = "rlock"]
    /\ UNCHANGED <<hub, clients, send, conns, budget>>
    /\ HubFrame

\* broadcastUpdate, src/Dockerfile:156-158: a.mu.RLock() and the copy of
\* a.alerts.
broadcastUpdateRLock(p) ==
    /\ pubs[p].pc = "rlock"
    /\ CanRLock
    /\ mu' = [mu EXCEPT !.readers = @ \cup {p}]
    /\ pubs' = [pubs EXCEPT ![p] = [pc |-> "inner", snapshot |-> ver]]
    /\ UNCHANGED <<ver, hub, clients, send, conns, budget>>
    /\ HubFrame

\* HasUnacknowledgedAlerts calls a.mu.RLock() (src/Dockerfile:457) while
\* broadcastUpdate holds its read lock.
InnerRLock == CanRLock

\* broadcastUpdate, src/Dockerfile:159-164: HasUnacknowledgedAlerts takes and
\* releases a read lock of its own, the acknowledged map is copied and the
\* outer read lock is released.
broadcastUpdateInner(p) ==
    /\ pubs[p].pc = "inner"
    /\ InnerRLock
    /\ mu' = [mu EXCEPT !.readers = @ \ {p}]
    /\ pubs' = [pubs EXCEPT ![p].pc = "send"]
    /\ UNCHANGED <<ver, hub, clients, send, conns, budget>>
    /\ HubFrame

\* broadcastUpdate, src/Dockerfile:204-208: the send on the unbuffered
\* channel goes through if Hub.run waits in its select, else the default
\* case is taken and the message is dropped.
broadcastUpdateSend(p) ==
    /\ pubs[p].pc = "send"
    /\ hub' = IF hub.pc = "select"
              THEN [hub EXCEPT !.pc = "fanout",
                               !.message = pubs[p].snapshot,
                               !.todo = clients,
                               !.received = IF pubs[p].snapshot > @
                                            THEN pubs[p].snapshot ELSE @]
              ELSE hub
    /\ pubs' = [pubs EXCEPT ![p] = NoPublisher]
    /\ UNCHANGED <<mu, ver, clients, send, conns, budget>>
    /\ HubFrame

\* serveWebSocket, src/Dockerfile:295-299: the goroutine that publishes the
\* state for a client that has just been registered.
serveWebSocketUpdate(p) ==
    /\ pubs[p].pc = "idle"
    /\ \E c \in Clients :
          /\ conns[c].initial
          /\ conns' = [conns EXCEPT ![c].initial = FALSE]
    /\ pubs' = [pubs EXCEPT ![p].pc = "rlock"]
    /\ UNCHANGED <<mu, ver, hub, clients, send, budget>>
    /\ HubFrame

\* serveWebSocket, src/Dockerfile:280-287: the connection is upgraded, the
\* client made and sent on hub.register; the send waits for Hub.run.
serveWebSocket(c) ==
    /\ conns[c].pc = "none"
    /\ conns' = [conns EXCEPT ![c].pc = "register"]
    /\ UNCHANGED <<mu, ver, hub, clients, send, pubs, budget>>
    /\ HubFrame

\* Hub.run, src/Dockerfile:132: a client is received from h.register;
\* serveWebSocket goes on and starts the pumps (src/Dockerfile:292-299).
HubRegister(c) ==
    /\ hub.pc = "select"
    /\ conns[c].pc = "register"
    /\ hub' = [hub EXCEPT !.pc = "register", !.client = c]
    /\ conns' = [conns EXCEPT ![c] = [pc |-> "open", writePump |-> TRUE,
                                      initial |-> TRUE]]
    /\ UNCHANGED <<mu, ver, clients, send, pubs, budget>>
    /\ HubFrame

\* Hub.run, src/Dockerfile:133: h.clients[client] = true.
HubRegistered ==
    /\ hub.pc = "register"
    /\ clients' = clients \cup {hub.client}
    /\ hub' = [hub EXCEPT !.pc = "select", !.client = 0]
    /\ UNCHANGED <<mu, ver, send, pubs, conns, budget>>
    /\ HubFrame

\* readPump, src/Dockerfile:213-232: ReadMessage fails (the peer is gone or
\* the connection was closed) and the deferred function sends the client on
\* hub.unregister; the send waits for Hub.run.
readPump(c) ==
    /\ conns[c].pc = "open"
    /\ conns' = [conns EXCEPT ![c].pc = "unregister"]
    /\ UNCHANGED <<mu, ver, hub, clients, send, pubs, budget>>
    /\ HubFrame

\* Hub.run, src/Dockerfile:135: a client is received from h.unregister.
HubUnregister(c) ==
    /\ hub.pc = "select"
    /\ conns[c].pc = "unregister"
    /\ hub' = [hub EXCEPT !.pc = "unregister", !.client = c]
    /\ conns' = [conns EXCEPT ![c].pc = "gone"]
    /\ UNCHANGED <<mu, ver, clients, send, pubs, budget>>
    /\ HubFrame

\* Hub.run, src/Dockerfile:136-139: a client still in the map is deleted and
\* its channel closed.
HubUnregistered ==
    /\ hub.pc = "unregister"
    /\ IF hub.client \in clients
       THEN /\ clients' = clients \ {hub.client}
            /\ send' = [send EXCEPT ![hub.client].open = FALSE]
       ELSE UNCHANGED <<clients, send>>
    /\ hub' = [hub EXCEPT !.pc = "select", !.client = 0]
    /\ UNCHANGED <<mu, ver, pubs, conns, budget>>
    /\ HubFrame

\* The fan-out that closes the channel of a full client and leaves the
\* client in the map.
FanoutKeepsDropped(c) ==
    IF Len(send[c].buf) < SendCap
    THEN [send |-> [send EXCEPT ![c].buf = Append(@, hub.message)],
          clients |-> clients, todo |-> hub.todo \ {c}]
    ELSE [send |-> [send EXCEPT ![c].open = FALSE],
          clients |-> clients, todo |-> hub.todo \ {c}]

\* The fan-out that gives up at the first client whose buffer is full.
FanoutStopsAtFull(c) ==
    IF Len(send[c].buf) < SendCap
    THEN [send |-> [send EXCEPT ![c].buf = Append(@, hub.message)],
          clients |-> clients, todo |-> hub.todo \ {c}]
    ELSE [send |-> [send EXCEPT ![c].open = FALSE],
          clients |-> clients \ {c}, todo |-> {}]

\* The fan-out whose send has no default case: with a full buffer nothing is
\* done and the client is tried again.
FanoutWaits(c) ==
    IF Len(send[c].buf) < SendCap
    THEN [send |-> [send EXCEPT ![c].buf = Append(@, hub.message)],
          clients |-> clients, todo |-> hub.todo \ {c}]
    ELSE [send |-> send, clients |-> clients, todo |-> hub.todo]

\* Hub.run, src/Dockerfile:143-149, for one client of the range: the message
\* is put into the buffer if there is room, else the channel is closed and
\* the client deleted.
Fanout(c) ==
    IF Len(send[c].buf) < SendCap
    THEN [send |-> [send EXCEPT ![c].buf = Append(@, hub.message)],
          clients |-> clients, todo |-> hub.todo \ {c}]
    ELSE [send |-> [send EXCEPT ![c].open = FALSE],
          clients |-> clients \ {c}, todo |-> hub.todo \ {c}]

\* Hub.run, src/Dockerfile:142-150: one iteration of the range over
\* h.clients; the order of a map range is not fixed.
HubFanoutStep(c) ==
    /\ hub.pc = "fanout"
    /\ c \in hub.todo
    /\ send' = Fanout(c).send
    /\ clients' = Fanout(c).clients
    /\ hub' = [hub EXCEPT !.todo = Fanout(c).todo]
    /\ UNCHANGED <<mu, ver, pubs, conns, budget>>
    /\ HubFrame

\* Hub.run, src/Dockerfile:150-151: the range is over, back to the select.
HubFanoutDone ==
    /\ hub.pc = "fanout"
    /\ hub.todo = {}
    /\ hub' = [hub EXCEPT !.pc = "select", !.message = 0]
    /\ UNCHANGED <<mu, ver, clients, send, pubs, conns, budget>>
    /\ HubFrame

\* writePump, src/Dockerfile:245-265: a message is received from c.send and
\* written with every message queued behind it.
writePump(c) ==
    /\ conns[c].writePump
    /\ send[c].buf # << >>
    /\ send' = [send EXCEPT ![c].buf = << >>]
    /\ UNCHANGED <<mu, ver, hub, clients, pubs, conns, budget>>
    /\ HubFrame

\* writePump returns when c.send is closed and empty
\* (src/Dockerfile:247-250).  A writePump that has stopped because a write
\* failed is not told apart from one that is slow: neither takes messages.
writePumpReturn(c) ==
    /\ conns[c].writePump
    /\ ~send[c].open
    /\ send[c].buf = << >>
    /\ conns' = [conns EXCEPT ![c].writePump = FALSE]
    /\ UNCHANGED <<mu, ver, hub, clients, send, pubs, budget>>
    /\ HubFrame

\* The steps of a publisher after its request has arrived.
Publish(p) ==
    \/ LockAnnounce(p)
    \/ Mutate(p)
    \/ broadcastUpdateRLock(p)
    \/ broadcastUpdateInner(p)
    \/ broadcastUpdateSend(p)

\* The steps of Hub.run between two selects.
HubWork ==
    \/ HubRegistered
    \/ HubUnregistered
    \/ \E c \in Clients : HubFanoutStep(c)
    \/ HubFanoutDone

HubNext ==
    \/ \E p \in Publishers : Request(p)
    \/ \E p \in Publishers : Publish(p)
    \/ \E p \in Publishers : serveWebSocketUpdate(p)
    \/ \E c \in Clients : serveWebSocket(c)
    \/ \E c \in Clients : HubRegister(c)
    \/ \E c \in Clients : readPump(c)
    \/ \E c \in Clients : HubUnregister(c)
    \/ HubWork
    \/ \E c \in Clients : writePump(c)
    \/ \E c \in Clients : writePumpReturn(c)

HubSpec == HubInit /\ [][HubNext]_vars

\* The scheduler runs Hub.run and every publisher that can take a step.  The
\* clients are not obliged to read, to stay or to send requests.
HubFairSpec ==
    /\ HubSpec
    /\ WF_vars(HubWork)
    /\ \A p \in Publishers : WF_vars(Publish(p))

\* ------------------------------------------------------------------- lock
\* a.mu of app.go as the goroutines take and release it: a step is the return
\* of a.mu.Lock() or a.mu.RLock(), or the code from there up to an unlock,
\* and in AddWebhook each of reconciliation, insertion and truncation.  A
\* writer that waits does not hold new readers back here; sync.RWMutex does,
\* which takes behaviours away and adds none.

\* The requests of a run.
LockOps == 3

\* The goroutine of playSoundLoop number l as a holder of a.mu; the request
\* goroutine h is h.
LoopId(l) == NumHandlers + l

\* a.mu.Lock() that does not wait for the read locks.
CanLockIgnoresReaders == mu.writer = 0

\* a.mu.Lock() returns: no goroutine holds the lock in either mode.
CanLock == mu.writer = 0 /\ mu.readers = {}

\* a.mu.Unlock() that leaves the lock taken.
MuUnlockForgets == mu

MuLock(g) == [mu EXCEPT !.writer = g]
MuUnlock == [mu EXCEPT !.writer = 0]
MuRLock(g) == [mu EXCEPT !.readers = @ \cup {g}]
MuRUnlock(g) == [mu EXCEPT !.readers = @ \ {g}]

\* A request goroutine of these runs: where it is, the handler it runs, its
\* arguments and the locals of AddWebhook (timestamp, matchedResolvedAlerts)
\* and of checkAndPlaySound (hasUnacknowledged).
LockNoHandler ==
    [pc |-> "idle", op |-> "none", payload |-> << >>, alertID |-> << >>,
     timestamp |-> 0, matched |-> << >>, hasUnacknowledged |-> FALSE]

\* NewAppState (app.go:24-31) and the goroutines before the first request.
LockInit ==
    /\ alerts = << >>
    /\ acknowledged = {}
    /\ maxSize = AlarmMaxSize
    /\ clock = 1
    /\ last = NoOp
    /\ MatchIdle
    /\ soundPlaying = FALSE
    /\ soundStopChan = 0
    /\ currentSoundCmd = 0
    /\ procs = [l \in Loops |-> "none"]
    /\ loops = [l \in Loops |-> NoLoop]
    /\ handlers = [h \in Handlers |-> LockNoHandler]
    /\ budget = LockOps
    /\ mu = [readers |-> {}, writer |-> 0]
    /\ ver = 0
    /\ hub = << >>
    /\ clients = {}
    /\ send = << >>
    /\ pubs = << >>
    /\ conns = << >>

LockFrame == UNCHANGED <<maxSize, last, matchVars, ver, hub, clients, send, pubs, conns>>

\* A request arrives: webhookHandler, acknowledgeHandler, clearHandler or
\* indexHandler (app.go:384-439) is entered with its arguments.
LockRequest(h) ==
    /\ handlers[h].pc = "idle"
    /\ budget > 0
    /\ budget' = budget - 1
    /\ \/ \E payload \in AlarmPayloads :
             handlers' = [handlers EXCEPT ![h] =
                 [LockNoHandler EXCEPT !.pc = "Lock", !.op = "AddWebhook",
                                       !.payload = payload]]
       \/ \E alertID \in AlarmIdArgs :
             handlers' = [handlers EXCEPT ![h] =
                 [LockNoHandler EXCEPT !.pc = "Lock", !.op = "Acknowledge",
                                       !.alertID = alertID]]
       \/ handlers' = [handlers EXCEPT ![h] =
                 [LockNoHandler EXCEPT !.pc = "Lock", !.op = "Clear"]]
       \/ handlers' = [handlers EXCEPT ![h] =
                 [LockNoHandler EXCEPT !.pc = "RLock", !.op = "GetAlerts"]]
    /\ UNCHANGED <<alerts, acknowledged, clock, soundPlaying, soundStopChan,
                   currentSoundCmd, procs, loops, mu>>
    /\ LockFrame

\* a.mu.Lock() returns in AddWebhook (app.go:34), Acknowledge (app.go:209) or
\* ClearAcknowledgedAndResolved (app.go:219).
MutatorLock(h) ==
    /\ handlers[h].pc = "Lock"
    /\ CanLock
    /\ mu' = MuLock(h)
    /\ handlers' = [handlers EXCEPT ![h].pc = IF handlers[h].op = "AddWebhook"
                                              THEN "remove" ELSE "locked"]
    /\ UNCHANGED <<alerts, acknowledged, clock, soundPlaying, soundStopChan,
                   currentSoundCmd, procs, loops, budget>>
    /\ LockFrame

\* AddWebhook, app.go:35-44: the clock is read and the firing entries that
\* the resolved alerts match are removed.
AddWebhookRemove(h) ==
    /\ handlers[h].pc = "remove"
    /\ \E now \in clock..MaxClock :
          LET payload == handlers[h].payload
              rec == IF payload.Status = "resolved" \/ hasResolvedAlerts(payload.Alerts)
                     THEN removeMatchingFiringAlerts(alerts, acknowledged, payload.Alerts)
                     ELSE [filtered |-> alerts, ack |-> acknowledged,
                           matched |-> << >>, removed |-> {}]
          IN  /\ clock' = now
              /\ alerts' = rec.filtered
              /\ acknowledged' = rec.ack
              /\ handlers' = [handlers EXCEPT ![h].pc = "insert",
                                              ![h].timestamp = now,
                                              ![h].matched = rec.matched]
    /\ UNCHANGED <<soundPlaying, soundStopChan, currentSoundCmd, procs, loops,
                   budget, mu>>
    /\ LockFrame

\* AddWebhook, app.go:46-72: the insertion loop.
AddWebhookInsert(h) ==
    /\ handlers[h].pc = "insert"
    /\ alerts' = InsertLoop(handlers[h].payload.Alerts, handlers[h].matched,
                            handlers[h].timestamp, 1,
                            [list |-> alerts, accepted |-> << >>]).list
    /\ handlers' = [handlers EXCEPT ![h].pc = "truncate"]
    /\ UNCHANGED <<acknowledged, clock, soundPlaying, soundStopChan,
                   currentSoundCmd, procs, loops, budget, mu>>
    /\ LockFrame

\* AddWebhook, app.go:74-78: the truncation and a.mu.Unlock().
AddWebhookTruncate(h) ==
    /\ handlers[h].pc = "truncate"
    /\ alerts' = Truncate(alerts, maxSize)
    /\ mu' = MuUnlock
    /\ handlers' = [handlers EXCEPT ![h].pc = "RLock"]
    /\ UNCHANGED <<acknowledged, clock, soundPlaying, soundStopChan,
                   currentSoundCmd, procs, loops, budget>>
    /\ LockFrame

\* Acknowledge, app.go:210-211, and ClearAcknowledgedAndResolved,
\* app.go:220-239: the locked body and a.mu.Unlock().
MutatorUnlock(h) ==
    /\ handlers[h].pc = "locked"
    /\ IF handlers[h].op = "Acknowledge"
       THEN /\ acknowledged' = acknowledged \cup {handlers[h].alertID}
            /\ UNCHANGED alerts
       ELSE /\ alerts' = ClearResult(alerts, acknowledged).filtered
            /\ acknowledged' = ClearResult(alerts, acknowledged).ack
    /\ mu' = MuUnlock
    /\ handlers' = [handlers EXCEPT ![h].pc = "RLock"]
    /\ UNCHANGED <<clock, soundPlaying, soundStopChan, currentSoundCmd, procs,
                   loops, budget>>
    /\ LockFrame

\* a.mu.RLock() returns in GetAlerts (app.go:146) or in the
\* HasUnacknowledgedAlerts (app.go:188) that checkAndPlaySound (app.go:278)
\* and indexHandler (app.go:440) call.
ReaderRLock(h) ==
    /\ handlers[h].pc = "RLock"
    /\ CanRLock
    /\ mu' = MuRLock(h)
    /\ handlers' = [handlers EXCEPT ![h].pc = "reading"]
    /\ UNCHANGED <<alerts, acknowledged, clock, soundPlaying, soundStopChan,
                   currentSoundCmd, procs, loops, budget>>
    /\ LockFrame

\* The read and the deferred a.mu.RUnlock(): GetAlerts (app.go:148-172),
\* after which indexHandler calls HasUnacknowledgedAlerts, or
\* HasUnacknowledgedAlerts (app.go:189-199), after which indexHandler
\* returns and checkAndPlaySound goes on to a.mu.Lock() (app.go:280).
ReaderRUnlock(h) ==
    /\ handlers[h].pc = "reading"
    /\ mu' = MuRUnlock(h)
    /\ handlers' = [handlers EXCEPT ![h] =
           IF handlers[h].op = "GetAlerts"
           THEN [@ EXCEPT !.pc = "RLock", !.op = "index"]
           ELSE IF handlers[h].op = "index"
           THEN LockNoHandler
           ELSE [@ EXCEPT !.pc = "Lock2",
                          !.hasUnacknowledged = HasUnacknowledgedAlerts]]
    /\ UNCHANGED <<alerts, acknowledged, clock, soundPlaying, soundStopChan,
                   currentSoundCmd, procs, loops, budget>>
    /\ LockFrame

\* checkAndPlaySound, app.go:280: a.mu.Lock() returns.
checkAndPlaySoundLock(h) ==
    /\ handlers[h].pc = "Lock2"
    /\ CanLock
    /\ mu' = MuLock(h)
    /\ handlers' = [handlers EXCEPT ![h].pc = "decide"]
    /\ UNCHANGED <<alerts, acknowledged, clock, soundPlaying, soundStopChan,
                   currentSoundCmd, procs, loops, budget>>
    /\ LockFrame

\* checkAndPlaySound, app.go:281-301: the decision, a.mu.Unlock() and
\* `go a.playSoundLoop()`; the request returns.
checkAndPlaySoundUnlock(h) ==
    /\ handlers[h].pc = "decide"
    /\ LET hasUnacknowledged == handlers[h].hasUnacknowledged
           shouldPlay == hasUnacknowledged /\ ~soundPlaying
           stop == ~hasUnacknowledged /\ soundPlaying
       IN  /\ soundStopChan' = IF stop THEN soundStopChan + 1 ELSE soundStopChan
           /\ procs' = IF stop THEN KillCurrent ELSE procs
           /\ currentSoundCmd' = IF stop THEN 0 ELSE currentSoundCmd
           /\ soundPlaying' = StopFlag(stop)
           /\ loops' = IF shouldPlay THEN [loops EXCEPT ![FreeLoop].pc = "guard"]
                       ELSE loops
    /\ mu' = MuUnlock
    /\ handlers' = [handlers EXCEPT ![h] = LockNoHandler]
    /\ UNCHANGED <<alerts, acknowledged, clock, budget>>
    /\ LockFrame

\* The positions of playSoundLoop before a.mu.Lock() (app.go:305, 327, 340,
\* 358, 368) and the positions it has once the call has returned.
LoopLocked ==
    [guard |-> "guardLocked", quit |-> "quitLocked", store |-> "storeLocked",
     stop |-> "stopLocked", finish |-> "finishLocked"]

\* playSoundLoop: a.mu.Lock() returns.
LoopLock(l) ==
    /\ loops[l].pc \in DOMAIN LoopLocked
    /\ CanLock
    /\ mu' = MuLock(LoopId(l))
    /\ loops' = [loops EXCEPT ![l].pc = LoopLocked[loops[l].pc]]
    /\ UNCHANGED <<alerts, acknowledged, clock, soundPlaying, soundStopChan,
                   currentSoundCmd, procs, handlers, budget>>
    /\ LockFrame

\* playSoundLoop, app.go:306-312: the guard on soundPlaying and the unlock.
LoopGuardUnlock(l) ==
    /\ loops[l].pc = "guardLocked"
    /\ IF soundPlaying
       THEN /\ loops' = [loops EXCEPT ![l] = Returned]
            /\ UNCHANGED soundPlaying
       ELSE /\ soundPlaying' = TRUE
            /\ loops' = [loops EXCEPT ![l].pc = "poll", ![l].stopChan = soundStopChan]
    /\ mu' = MuUnlock
    /\ UNCHANGED <<alerts, acknowledged, clock, soundStopChan, currentSoundCmd,
                   procs, handlers, budget>>
    /\ LockFrame

\* playSoundLoop, app.go:318-323: the select with a default case.
LoopPoll(l) ==
    /\ loops[l].pc = "poll"
    /\ loops' = [loops EXCEPT ![l] = IF Closed(loops[l].stopChan) THEN Returned
                                     ELSE [@ EXCEPT !.pc = "check"]]
    /\ UNCHANGED <<alerts, acknowledged, clock, soundPlaying, soundStopChan,
                   currentSoundCmd, procs, handlers, budget, mu>>
    /\ LockFrame

\* playSoundLoop, app.go:326: a.mu.RLock() returns in
\* HasUnacknowledgedAlerts (app.go:188).
LoopRLock(l) ==
    /\ loops[l].pc = "check"
    /\ CanRLock
    /\ mu' = MuRLock(LoopId(l))
    /\ loops' = [loops EXCEPT ![l].pc = "checking"]
    /\ UNCHANGED <<alerts, acknowledged, clock, soundPlaying, soundStopChan,
                   currentSoundCmd, procs, handlers, budget>>
    /\ LockFrame

\* HasUnacknowledgedAlerts, app.go:189-199, and the test of app.go:326.
LoopRUnlock(l) ==
    /\ loops[l].pc = "checking"
    /\ mu' = MuRUnlock(LoopId(l))
    /\ loops' = [loops EXCEPT ![l].pc = IF HasUnacknowledgedAlerts THEN "start"
                                        ELSE "quit"]
    /\ UNCHANGED <<alerts, acknowledged, clock, soundPlaying, soundStopChan,
                   currentSoundCmd, procs, handlers, budget>>
    /\ LockFrame

\* playSoundLoop, app.go:328-334: nothing left to announce.
LoopQuitUnlock(l) ==
    /\ loops[l].pc = "quitLocked"
    /\ soundPlaying' = FALSE
    /\ procs' = KillCurrent
    /\ currentSoundCmd' = 0
    /\ mu' = MuUnlock
    /\ loops' = [loops EXCEPT ![l] = Returned]
    /\ UNCHANGED <<alerts, acknowledged, clock, soundStopChan, handlers, budget>>
    /\ LockFrame

\* playSoundLoop, app.go:338, and startSound (app.go:247-275).
LoopStart(l) ==
    /\ loops[l].pc = "start"
    /\ \E started \in BOOLEAN :
          /\ procs' = IF started THEN [procs EXCEPT ![l] = "running"] ELSE procs
          /\ loops' = [loops EXCEPT ![l].cmd = started,
                                    ![l].pc = IF started THEN "store" ELSE "wait"]
    /\ UNCHANGED <<alerts, acknowledged, clock, soundPlaying, soundStopChan,
                   currentSoundCmd, handlers, budget, mu>>
    /\ LockFrame

\* playSoundLoop, app.go:341-342: a.mu.Unlock() after the command has become
\* the current one.
LoopStoreRelease == MuUnlock

\* playSoundLoop, app.go:341-342.
LoopStoreUnlock(l) ==
    /\ loops[l].pc = "storeLocked"
    /\ currentSoundCmd' = l
    /\ mu' = LoopStoreRelease
    /\ loops' = [loops EXCEPT ![l].pc = "wait"]
    /\ UNCHANGED <<alerts, acknowledged, clock, soundPlaying, soundStopChan,
                   procs, handlers, budget>>
    /\ LockFrame

\* playSoundLoop, app.go:355-371: the select takes the stop case or the
\* soundDone case; each starts with a.mu.Lock().
LoopWait(l) ==
    /\ loops[l].pc = "wait"
    /\ \/ Closed(loops[l].stopChan) /\ loops' = [loops EXCEPT ![l].pc = "stop"]
       \/ SoundDone(l) /\ loops' = [loops EXCEPT ![l].pc = "finish"]
    /\ UNCHANGED <<alerts, acknowledged, clock, soundPlaying, soundStopChan,
                   currentSoundCmd, procs, handlers, budget, mu>>
    /\ LockFrame

\* playSoundLoop, app.go:359-364: the stop case.
LoopStopUnlock(l) ==
    /\ loops[l].pc = "stopLocked"
    /\ procs' = KillCurrent
    /\ currentSoundCmd' = 0
    /\ mu' = MuUnlock
    /\ loops' = [loops EXCEPT ![l] = Returned]
    /\ UNCHANGED <<alerts, acknowledged, clock, soundPlaying, soundStopChan,
                   handlers, budget>>
    /\ LockFrame

\* playSoundLoop, app.go:369-370: the soundDone case; cmd.Wait has reaped the
\* process.
LoopFinishUnlock(l) ==
    /\ loops[l].pc = "finishLocked"
    /\ currentSoundCmd' = 0
    /\ procs' = [procs EXCEPT ![l] = "none"]
    /\ mu' = MuUnlock
    /\ loops' = [loops EXCEPT ![l].pc = "sleep", ![l].cmd = FALSE]
    /\ UNCHANGED <<alerts, acknowledged, clock, soundPlaying, soundStopChan,
                   handlers, budget>>
    /\ LockFrame

\* playSoundLoop, app.go:374-380: stopped during the pause, or the two
\* seconds are over.
LoopSleep(l) ==
    /\ loops[l].pc = "sleep"
    /\ \/ Closed(loops[l].stopChan) /\ loops' = [loops EXCEPT ![l] = Returned]
       \/ loops' = [loops EXCEPT ![l].pc = "poll"]
    /\ UNCHANGED <<alerts, acknowledged, clock, soundPlaying, soundStopChan,
                   currentSoundCmd, procs, handlers, budget, mu>>
    /\ LockFrame

\* The player exits while the goroutines take and release a.mu.
LockProcessExit(l) ==
    /\ procs[l] = "running"
    /\ procs' = [procs EXCEPT ![l] = "ended"]
    /\ UNCHANGED <<alerts, acknowledged, clock, soundPlaying, soundStopChan,
                   currentSoundCmd, loops, handlers, budget, mu>>
    /\ LockFrame

\* The steps of one request goroutine after its arrival.
LockHandler(h) ==
    \/ MutatorLock(h)
    \/ AddWebhookRemove(h)
    \/ AddWebhookInsert(h)
    \/ AddWebhookTruncate(h)
    \/ MutatorUnlock(h)
    \/ ReaderRLock(h)
    \/ ReaderRUnlock(h)
    \/ checkAndPlaySoundLock(h)
    \/ checkAndPlaySoundUnlock(h)

\* The steps of one playSoundLoop goroutine.
LockLoop(l) ==
    \/ LoopLock(l)
    \/ LoopGuardUnlock(l)
    \/ LoopPoll(l)
    \/ LoopRLock(l)
    \/ LoopRUnlock(l)
    \/ LoopQuitUnlock(l)
    \/ LoopStart(l)
    \/ LoopStoreUnlock(l)
    \/ LoopWait(l)
    \/ LoopStopUnlock(l)
    \/ LoopFinishUnlock(l)
    \/ LoopSleep(l)

LockNext ==
    \/ \E h \in Handlers : LockRequest(h)
    \/ \E h \in Handlers : LockHandler(h)
    \/ \E l \in Loops : LockLoop(l)
    \/ \E l \in Loops : LockProcessExit(l)

LockSpec == LockInit /\ [][LockNext]_vars

\* ================================================================ claims
Range(seq) == { seq[k] : k \in 1..Len(seq) }
IsIngest == last.op = "AddWebhook"

\* Two alerts carry the same non-empty label mapping.
SameLabels(a, b) == DOMAIN a.Labels # {} /\ a.Labels = b.Labels

\* The entry the insertion loop made for the k-th accepted alert: the loop
\* prepends, so it is k-th from the end of the entries it added.
NewEntry(k) == last.untruncated[Len(last.accepted) - k + 1]
Survives(k) == Len(last.accepted) - k + 1 <= maxSize

\* C1: every two distinct entries retained in the store have distinct ids.
C1_UniqueIds ==
    \A i, j \in 1..Len(alerts) : i # j => alerts[i].ID # alerts[j].ID

\* C2: alertsMatch(R, F) is true iff both label mappings are non-empty and
\* equal as mappings; it is symmetric; an empty mapping matches nothing.
C2_MatchExact ==
    mOut.done =>
        /\ mOut.fwd = (DOMAIN mR.Labels # {} /\ DOMAIN mF.Labels # {} /\ mR.Labels = mF.Labels)
        /\ mOut.fwd = mOut.rev
        /\ (DOMAIN mR.Labels = {} \/ DOMAIN mF.Labels = {}) => ~mOut.fwd

\* alertsMatch has answered true for two alerts with a mapping of two keys.
C2_Witness ==
    /\ mOut.done
    /\ mOut.fwd
    /\ Cardinality(DOMAIN mR.Labels) = 2

\* C3: AddWebhook makes exactly one new entry for every alert that is not
\* resolved, that entry is unacknowledged, and if one of them is firing and
\* survives truncation then HasUnacknowledgedAlerts() is true afterwards.
C3_AcceptsUnresolved ==
    IsIngest =>
        /\ \A i \in 1..Len(last.payload) :
               last.payload[i].Status # "resolved" =>
                   /\ Cardinality({ k \in 1..Len(last.accepted) : last.accepted[k] = i - 1 }) = 1
                   /\ \A k \in 1..Len(last.accepted) :
                          last.accepted[k] = i - 1 =>
                              /\ NewEntry(k).Alert = last.payload[i]
                              /\ ~IsAck(acknowledged, NewEntry(k).ID)
        /\ (\E k \in 1..Len(last.accepted) :
                /\ last.payload[last.accepted[k] + 1].Status = "firing"
                /\ Survives(k))
           => HasUnacknowledgedAlerts

\* The store held exactly one entry, a firing one, and the payload was one
\* resolved alert with that entry's labels.
C4_Case ==
    /\ IsIngest
    /\ Len(last.alerts0) = 1
    /\ last.alerts0[1].Alert.Status = "firing"
    /\ last.payload = <<Alert("resolved", last.alerts0[1].Alert.Labels)>>

\* C4 as claimed, for an entry that has labels: in that case the store is
\* empty afterwards and HasUnacknowledgedAlerts() is false.
C4_StoreEmptied ==
    (C4_Case /\ DOMAIN last.alerts0[1].Alert.Labels # {})
    => alerts = << >> /\ ~HasUnacknowledgedAlerts

\* C4: in that case, when the labels are not empty, the firing entry is
\* removed, the store holds exactly one entry, the new entry of the resolved
\* alert, and HasUnacknowledgedAlerts() is false; when the labels are empty
\* the store is left as it was.
C4_FiringReplacedByResolved ==
    C4_Case =>
        IF DOMAIN last.alerts0[1].Alert.Labels # {}
        THEN /\ last.removed = {1}
             /\ Len(alerts) = 1
             /\ alerts[1] = AlertEntry(clock, 0, clock, last.payload[1])
             /\ ~HasUnacknowledgedAlerts
        ELSE alerts = last.alerts0 /\ acknowledged = last.ack0

C4_Witness ==
    /\ C4_Case
    /\ DOMAIN last.alerts0[1].Alert.Labels # {}
    /\ Len(alerts) = 1
    /\ alerts[1].Alert.Status = "resolved"

\* Payload alert i is resolved and no firing entry of the store has its labels.
Unmatched(i) ==
    /\ last.payload[i].Status = "resolved"
    /\ \A k \in 1..Len(last.alerts0) :
           ~(last.alerts0[k].Alert.Status = "firing"
             /\ SameLabels(last.payload[i], last.alerts0[k].Alert))

\* C5: a resolved alert that matches no stored firing entry creates no entry
\* and removes none; a payload of such alerts only leaves the entries and the
\* acknowledgements exactly as they were.
C5_UnmatchedResolvedDropped ==
    IsIngest =>
        /\ \A i \in 1..Len(last.payload) :
               Unmatched(i) =>
                   /\ (i - 1) \notin Range(last.accepted)
                   /\ \A k \in last.removed :
                          last.alerts0[k].Alert.Labels # last.payload[i].Labels
        /\ (\A i \in 1..Len(last.payload) : Unmatched(i)) =>
               alerts = last.alerts0 /\ acknowledged = last.ack0

\* A payload of unmatched resolved alerts only reached a store holding an
\* acknowledged firing entry.
C5_Witness ==
    /\ IsIngest
    /\ Len(last.payload) >= 1
    /\ \A i \in 1..Len(last.payload) : Unmatched(i)
    /\ \E k \in 1..Len(last.alerts0) :
           /\ last.alerts0[k].Alert.Status = "firing"
           /\ IsAck(last.ack0, last.alerts0[k].ID)

\* The removed entries that resolved payload alert i is the first to match.
RemovedBy(i) ==
    { k \in last.removed :
        /\ last.payload[i].Status = "resolved"
        /\ SameLabels(last.payload[i], last.alerts0[k].Alert)
        /\ \A j \in 1..(i - 1) :
               ~(last.payload[j].Status = "resolved"
                 /\ SameLabels(last.payload[j], last.alerts0[k].Alert)) }

\* C6 as claimed: each resolved alert of the payload removes at most one
\* stored firing entry.
C6_AtMostOnePerResolved ==
    IsIngest => \A i \in 1..Len(last.payload) : Cardinality(RemovedBy(i)) <= 1

\* The positions of the entries removed, in store order.
RECURSIVE Ascending(_)
Ascending(S) ==
    IF S = {} THEN << >>
    ELSE LET m == CHOOSE x \in S : \A y \in S : x <= y
         IN  <<m>> \o Ascending(S \ {m})

\* C6: reconciliation removes exactly the stored firing entries whose labels
\* are those of some resolved alert of the payload, all of them, and records
\* for each removed entry one resolved alert, the first that matches it.
C6_RemovesEveryMatch ==
    IsIngest =>
        /\ last.removed =
               { k \in 1..Len(last.alerts0) :
                   /\ last.alerts0[k].Alert.Status = "firing"
                   /\ \E i \in 1..Len(last.payload) :
                          /\ last.payload[i].Status = "resolved"
                          /\ SameLabels(last.payload[i], last.alerts0[k].Alert) }
        /\ Len(last.matched) = Cardinality(last.removed)
        /\ \A m \in 1..Len(last.matched) :
               \E i \in 1..Len(last.payload) :
                   /\ last.matched[m] = last.payload[i]
                   /\ Ascending(last.removed)[m] \in RemovedBy(i)

\* One resolved alert removed two firing entries with its labels.
C6_Witness ==
    /\ IsIngest
    /\ \E i \in 1..Len(last.payload) : Cardinality(RemovedBy(i)) = 2

\* C7: a resolved alert becomes an entry iff the reconciliation of the same
\* AddWebhook removed a stored firing entry with the same labels.
C7_ResolvedAcceptedIffMatched ==
    IsIngest =>
        \A i \in 1..Len(last.payload) :
            last.payload[i].Status = "resolved" =>
                ( (i - 1) \in Range(last.accepted)
                  <=> \E k \in last.removed :
                          /\ last.alerts0[k].Alert.Status = "firing"
                          /\ last.alerts0[k].Alert.Labels = last.payload[i].Labels )

\* One payload carried a resolved alert that became an entry and one that did
\* not, after a removal.
C7_Witness ==
    /\ IsIngest
    /\ last.removed # {}
    /\ \E i, j \in 1..Len(last.payload) :
           /\ last.payload[i].Status = "resolved"
           /\ last.payload[j].Status = "resolved"
           /\ (i - 1) \in Range(last.accepted)
           /\ (j - 1) \notin Range(last.accepted)

\* The entries that left the store in the last operation: those removed by
\* reconciliation or by the clear, and those cut off by the truncation.
Leavers ==
    { last.alerts0[k] : k \in last.removed }
    \cup { last.untruncated[k] : k \in (maxSize + 1)..Len(last.untruncated) }

\* C8: once an operation has completed, no entry it removed from the store
\* has its id in the acknowledgement set.  Stated for operations that start
\* with every acknowledgement referring to a stored entry and, for
\* AddWebhook, with a clock reading later than every stored entry's.
C8_NoAckOfRemoved ==
    ( /\ last.op # "none"
      /\ last.ack0 \subseteq { last.alerts0[k].ID : k \in 1..Len(last.alerts0) }
      /\ IsIngest => \A k \in 1..Len(last.alerts0) : last.alerts0[k].Timestamp < clock )
    => \A e \in Leavers : ~IsAck(acknowledged, e.ID)

\* C9: every id in the acknowledgement set is the id of a stored entry.
C9_NoDanglingAck ==
    acknowledged \subseteq { alerts[k].ID : k \in 1..Len(alerts) }

\* C10: the number of stored entries is at most maxSize.
C10_SizeBounded == Len(alerts) <= maxSize

\* An AddWebhook made the list longer than maxSize and cut it back.
C10_Witness ==
    /\ IsIngest
    /\ maxSize >= 1
    /\ Len(last.untruncated) > maxSize
    /\ Len(alerts) = maxSize

\* The entries of seq at the positions outside S, in their order, from k on.
RECURSIVE Outside(_, _, _)
Outside(seq, S, k) ==
    IF k > Len(seq) THEN << >>
    ELSE IF k \in S THEN Outside(seq, S, k + 1)
    ELSE <<seq[k]>> \o Outside(seq, S, k + 1)

\* The entries an AddWebhook made, the one for the last accepted alert first.
IngestedNewestFirst ==
    [ k \in 1..Len(last.accepted) |->
        LET i == last.accepted[Len(last.accepted) - k + 1]
        IN  AlertEntry(clock, i, clock, last.payload[i + 1]) ]

\* The store's entries after the removals and insertions of an AddWebhook,
\* from the most to the least recently ingested: the new entries, the last
\* accepted first, then the entries that were stored and not removed, in the
\* order they had.
ByRecency == IngestedNewestFirst \o Outside(last.alerts0, last.removed, 1)

\* C11: after an AddWebhook the store holds the maxSize most recently ingested
\* entries, most recent first: when the list exceeds maxSize exactly its tail
\* is dropped, so no entry survives while one ingested after it is evicted.
C11_OldestEvicted ==
    IsIngest =>
        alerts = SubSeq(ByRecency, 1,
                        IF Len(ByRecency) > maxSize THEN maxSize ELSE Len(ByRecency))

\* Three firing entries met maxSize = 2: the third was ingested on top of two
\* stored ones and the older of those two was evicted.
C11_Witness ==
    /\ IsIngest
    /\ maxSize = 2
    /\ Len(last.alerts0) = 2
    /\ last.removed = {}
    /\ Len(last.accepted) = 1
    /\ \A k \in 1..3 : last.untruncated[k].Alert.Status = "firing"
    /\ alerts = <<NewEntry(1), last.alerts0[1]>>

\* C12: Acknowledge of an id that is already acknowledged leaves the entries,
\* the acknowledgement set, the possible results of GetAlerts and the value of
\* HasUnacknowledgedAlerts as they were: a second call changes nothing.
C12_AcknowledgeIdempotent ==
    (last.op = "Acknowledge" /\ last.id \in last.ack0) =>
        /\ alerts = last.alerts0
        /\ acknowledged = last.ack0
        /\ SortedCopies(alerts, acknowledged) = SortedCopies(last.alerts0, last.ack0)
        /\ HasUnack(alerts, acknowledged) = HasUnack(last.alerts0, last.ack0)

\* A stored firing entry was acknowledged a second time.
C12_Witness ==
    /\ last.op = "Acknowledge"
    /\ last.id \in last.ack0
    /\ \E k \in 1..Len(alerts) :
          alerts[k].ID = last.id /\ alerts[k].Alert.Status = "firing"

\* C13: after ClearAcknowledgedAndResolved no stored entry is resolved and
\* none is firing and acknowledged; every entry that was firing and
\* unacknowledged is still stored, in the same relative order; and
\* HasUnacknowledgedAlerts has the value it had before the call.
C13_ClearPostcondition ==
    last.op = "Clear" =>
        /\ \A k \in 1..Len(alerts) :
              /\ alerts[k].Alert.Status # "resolved"
              /\ ~(alerts[k].Alert.Status = "firing" /\ IsAck(acknowledged, alerts[k].ID))
        /\ \A k \in 1..Len(last.alerts0) :
              (last.alerts0[k].Alert.Status = "firing"
                  /\ ~IsAck(last.ack0, last.alerts0[k].ID)) => k \notin last.removed
        /\ alerts = Outside(last.alerts0, last.removed, 1)
        /\ HasUnack(alerts, acknowledged) = HasUnack(last.alerts0, last.ack0)

\* C14: ClearAcknowledgedAndResolved returns the number of entries it removed,
\* the size before minus the size after; a second call made at once returns 0
\* and changes neither the entries nor the acknowledgement set.
C14_ClearCount ==
    last.op = "Clear" =>
        /\ last.count = Len(last.alerts0) - Len(alerts)
        /\ last.count = Cardinality(last.removed)
        /\ LET again == ClearResult(alerts, acknowledged)
           IN  /\ again.clearedCount = 0
               /\ again.filtered = alerts
               /\ again.ack = acknowledged

\* A call removed a resolved entry that was not acknowledged and kept another
\* entry.
C14_Witness ==
    /\ last.op = "Clear"
    /\ last.count = 1
    /\ Len(alerts) = 1
    /\ \E k \in last.removed :
          /\ last.alerts0[k].Alert.Status = "resolved"
          /\ ~IsAck(last.ack0, last.alerts0[k].ID)

\* C15: HasUnacknowledgedAlerts is true exactly when some stored entry is
\* firing and its id is not in the acknowledgement set; acknowledged firing
\* entries, entries of another status and acknowledged ids of no stored entry
\* do not make it true.
C15_HasUnackExact ==
    HasUnacknowledgedAlerts <=>
        \E k \in 1..Len(alerts) :
            alerts[k].Alert.Status = "firing" /\ alerts[k].ID \notin acknowledged

\* The answer is true for a store whose first entry is firing and
\* acknowledged and whose second entry is firing and not acknowledged.
C15_Witness ==
    /\ Len(alerts) = 2
    /\ alerts[1].Alert.Status = "firing" /\ alerts[1].ID \in acknowledged
    /\ alerts[2].Alert.Status = "firing" /\ alerts[2].ID \notin acknowledged
    /\ HasUnacknowledgedAlerts

\* The band of an entry: 0 firing and unacknowledged, 1 firing and
\* acknowledged, 2 everything else.
Band(e) ==
    CASE e.Alert.Status = "firing" /\ e.ID \notin acknowledged -> 0
      [] e.Alert.Status = "firing" /\ e.ID \in acknowledged -> 1
      [] OTHER -> 2

\* C16: GetAlerts returns a permutation of the stored entries and leaves the
\* store as it was; in the result no entry of a higher band comes before one
\* of a lower band, and within a band no entry comes before one with a
\* strictly newer timestamp.
C16_SnapshotOrder ==
    last.op = "GetAlerts" =>
        /\ alerts = last.alerts0
        /\ acknowledged = last.ack0
        /\ Len(last.result) = Len(alerts)
        /\ \E p \in Perms(Len(alerts)) :
              last.result = [k \in 1..Len(alerts) |-> alerts[p[k]]]
        /\ \A i, j \in 1..Len(last.result) :
              i < j =>
                 /\ Band(last.result[i]) <= Band(last.result[j])
                 /\ Band(last.result[i]) = Band(last.result[j])
                       => last.result[i].Timestamp >= last.result[j].Timestamp

\* GetAlerts put the second stored entry first because its band is lower.
C16_Witness ==
    /\ last.op = "GetAlerts"
    /\ Len(alerts) = 2
    /\ alerts[1].ID # alerts[2].ID
    /\ last.result = <<alerts[2], alerts[1]>>
    /\ Band(alerts[2]) < Band(alerts[1])

\* A playSoundLoop goroutine is inside its cycle: past the soundPlaying guard
\* and not yet returned.
InCycle(l) == loops[l].pc \notin {"none", "guard", "done"}
\* No request is being served.
Quiet == \A h \in Handlers : handlers[h].pc = "idle"
\* The players that run.
Running == { l \in Loops : procs[l] = "running" }

\* C17: when every request has returned, its checkAndPlaySound included, and
\* the store holds a firing entry that is not acknowledged, a playSoundLoop
\* goroutine is started or running: the program does not rest with
\* HasUnacknowledgedAlerts true and no loop.
C17_NeverRestsSilent ==
    (Quiet /\ HasUnacknowledgedAlerts) =>
        \E l \in Loops : loops[l].pc \notin {"none", "done"}

\* Every loop goroutine has returned, soundPlaying is false and no player
\* runs.
Silent ==
    /\ \A l \in Loops : loops[l].pc \in {"none", "done"}
    /\ ~soundPlaying
    /\ Running = {}

\* C18: once the clients send no more requests and the store holds no firing
\* entry that is not acknowledged, eventually, and from then on, every
\* playSoundLoop goroutine has returned, soundPlaying is false and no player
\* process runs.
C18_EventuallySilent ==
    (budget = 0 /\ ~HasUnacknowledgedAlerts) ~> []Silent

\* After the last request a loop that had been playing was stopped through
\* its channel and everything is at rest.
C18_Witness ==
    /\ budget = 0
    /\ Quiet
    /\ ~HasUnacknowledgedAlerts
    /\ soundStopChan >= 1
    /\ \E l \in Loops : loops[l].pc = "done"
    /\ Silent

\* C19: no two playSoundLoop goroutines are inside their cycle at the same
\* time.
C19_AtMostOneLoop ==
    \A l, m \in Loops : (InCycle(l) /\ InCycle(m)) => l = m

\* C20: at most one player process runs at any time, and a running process
\* whose command the loop has stored (app.go:339-343) is the one
\* currentSoundCmd refers to.  The time between cmd.Start() and the store is
\* left out of the statement.
C20_SingleProcess ==
    /\ Cardinality(Running) <= 1
    /\ \A l \in Running : loops[l].pc # "store" => currentSoundCmd = l

\* C21: after checkAndPlaySound has closed the stop channel a loop captured,
\* that loop starts no player any more, wherever in its cycle it was.
C21_StopEffective ==
    [][ \A l \in Loops :
          (InCycle(l) /\ Closed(loops[l].stopChan))
              => ~(procs[l] # "running" /\ procs'[l] = "running") ]_vars

\* C22: a loop that passes the guard captures the channel that is current at
\* that moment, and this channel is open: the channels closed by earlier
\* stops are not the one it waits on.
C22_FreshChannel ==
    [][ \A l \in Loops :
          (loops[l].pc = "guard" /\ loops'[l].pc = "poll")
              => /\ loops'[l].stopChan = soundStopChan'
                 /\ ~Closed(loops[l].stopChan)' ]_vars

\* A loop started after a stop is in its cycle with the replacement channel,
\* which is open, while an earlier loop has returned.
C22_Witness ==
    \E l, m \in Loops :
        /\ loops[m].pc = "done"
        /\ InCycle(l)
        /\ loops[l].stopChan >= 1
        /\ ~Closed(loops[l].stopChan)

\* C28: Acknowledge leaves the list of entries as it was and adds the id to
\* the acknowledged ids; nothing else of the store changes.
C28_AcknowledgeFrame ==
    last.op = "Acknowledge" =>
        /\ alerts = last.alerts0
        /\ acknowledged = last.ack0 \cup {last.id}

\* The only unacknowledged firing entry was acknowledged: it is still stored
\* and HasUnacknowledgedAlerts went from true to false.
C28_Witness ==
    /\ last.op = "Acknowledge"
    /\ HasUnack(last.alerts0, last.ack0)
    /\ ~HasUnacknowledgedAlerts
    /\ \E k \in 1..Len(alerts) : alerts[k].ID = last.id

\* C30: the list is in reverse insertion order.  The timestamps never
\* increase from head to tail, and every operation leaves the list as the
\* entries it made, the last accepted alert of the payload first, followed by
\* the entries it kept in the order they had, cut to maxSize.
C30_ReverseInsertionOrder ==
    /\ \A i, j \in 1..Len(alerts) :
          i < j => alerts[i].Timestamp >= alerts[j].Timestamp
    /\ last.op # "none" =>
          \E n \in 0..Len(ByRecency) : alerts = SubSeq(ByRecency, 1, n)

\* An AddWebhook with two accepted alerts put the second ahead of the first,
\* both ahead of an entry stored before.
C30_Witness ==
    /\ IsIngest
    /\ Len(last.accepted) = 2
    /\ Len(last.alerts0) >= 1
    /\ last.removed = {}
    /\ Len(alerts) = 2
    /\ alerts[1].ID = EntryID(clock, 1)
    /\ alerts[2].ID = EntryID(clock, 0)

\* C24: the store lock never deadlocks: whenever a request or a
\* broadcastUpdate is under way, one of them can take its next step.
C24_LockProgress ==
    (\E p \in Publishers : pubs[p].pc # "idle")
        => ENABLED (\E p \in Publishers : Publish(p))

\* C25: the send of broadcastUpdate can always be taken at once, whatever
\* Hub.run is doing, and a fan-out always comes back to the select of Hub.run,
\* also when the buffers of the clients are full and nobody reads from them.
C25_PublishNonBlocking ==
    /\ [](\A p \in Publishers :
             pubs[p].pc = "send" => ENABLED broadcastUpdateSend(p))
    /\ (hub.pc = "fanout") ~> (hub.pc = "select")

\* Hub.run starts the fan-out of a message while the buffer of every client
\* is full and another broadcastUpdate is at its send.
C25_Witness ==
    /\ hub.pc = "fanout"
    /\ hub.todo = Clients
    /\ \A c \in Clients : Len(send[c].buf) = SendCap
    /\ \E p \in Publishers : pubs[p].pc = "send"

\* The clients Hub.run has dealt with in a step of the fan-out.
Visited == hub.todo \ hub'.todo

\* C26: in the fan-out of a message every registered client with room in its
\* buffer gets the message at the end of its buffer and stays registered,
\* every registered client with a full buffer is deleted from the map and its
\* channel closed, the other clients are left as they are, the fan-out ends
\* only when every client has been dealt with, and the store is not written.
C26_FanoutDelivers ==
    [][ (hub.pc = "fanout" /\ hub' # hub) =>
          /\ \A c \in Visited :
                IF Len(send[c].buf) < SendCap
                THEN /\ send'[c] = [open |-> TRUE, buf |-> Append(send[c].buf, hub.message)]
                     /\ c \in clients'
                ELSE /\ ~send'[c].open
                     /\ c \notin clients'
          /\ \A c \in Clients \ Visited :
                send'[c] = send[c] /\ (c \in clients' <=> c \in clients)
          /\ hub'.pc = "select" => hub.todo = {}
          /\ ver' = ver
          /\ UNCHANGED storeVars ]_vars

\* In the fan-out of a message one client was dropped with a full buffer and
\* another one has the message in its buffer.
C26_Witness ==
    /\ hub.pc = "fanout"
    /\ hub.todo = {}
    /\ \E c, d \in Clients :
          /\ conns[c].pc = "open" /\ ~send[c].open /\ c \notin clients
          /\ Len(send[c].buf) = SendCap
          /\ d \in clients /\ send[d].buf = <<hub.message>>

\* C27: when every request and every broadcastUpdate has returned, none is
\* still to come for a new connection, Hub.run waits in its select and a
\* client is registered, the hub has received a snapshot taken after the last
\* mutation.
C27_EveryChangePublished ==
    ( /\ \A p \in Publishers : pubs[p].pc = "idle"
      /\ \A c \in Clients : ~conns[c].initial
      /\ hub.pc = "select"
      /\ clients # {} )
        => hub.received = ver

\* playSoundLoop number l is at one of its suspension points: the select on
\* the stop channel and soundDone (app.go:355) or the pause (app.go:374).
Suspended(l) == loops[l].pc \in {"wait", "sleep"}

\* C23: a playSoundLoop goroutine at a suspension point holds a.mu in neither
\* mode, and when every loop goroutine that runs is at a suspension point a
\* request under way can take its next step.
C23_LoopNeverHoldsLock ==
    /\ \A l \in Loops :
          Suspended(l) => mu.writer # LoopId(l) /\ LoopId(l) \notin mu.readers
    /\ ( /\ \A l \in Loops : loops[l].pc \in {"none", "done"} \/ Suspended(l)
         /\ \E h \in Handlers : handlers[h].pc # "idle" )
           => ENABLED (\E h \in Handlers : LockHandler(h))

\* A mutator is in its locked body while a loop goroutine waits for the
\* player it started.
C23_Witness ==
    \E l \in Loops, h \in Handlers :
        /\ loops[l].pc = "wait"
        /\ procs[l] = "running"
        /\ mu.writer = h
        /\ handlers[h].pc \in {"remove", "insert", "truncate", "locked"}

\* The request h reads or writes the store under a.mu.
InStore(h) == handlers[h].pc \in {"remove", "insert", "truncate", "locked", "reading"}

\* C29: while an AddWebhook is between its a.mu.Lock() and its a.mu.Unlock()
\* it holds the write lock, no other request and no loop goroutine is in a
\* body that reads or writes the store, and outside its truncation step the
\* list is never longer than maxSize.
C29_IngestAtomic ==
    /\ \A h \in Handlers :
          handlers[h].pc \in {"remove", "insert", "truncate"} =>
             /\ mu.writer = h
             /\ mu.readers = {}
             /\ \A g \in Handlers \ {h} : ~InStore(g)
             /\ \A l \in Loops : loops[l].pc # "checking"
    /\ Len(alerts) > maxSize => \E h \in Handlers : handlers[h].pc = "truncate"

\* An AddWebhook has removed the firing entry its resolved alert matches and
\* has not inserted yet, while another request waits for its read lock.
C29_Witness ==
    \E h \in Handlers :
        /\ handlers[h].pc = "insert"
        /\ Len(handlers[h].matched) > 0
        /\ alerts = << >>
        /\ \E g \in Handlers \ {h} : handlers[g].pc = "RLock"

\* The entries of the store that reconciliation left in place, in order.
Stayers == Outside(last.alerts0, last.removed, 1)

\* C31: the reconciliation of an AddWebhook removes only firing entries whose
\* labels are not empty and are those of a resolved alert of the payload; the
\* other entries stay as they were and in their order, below the new ones,
\* and each of them is acknowledged after it iff it was before.
C31_ReconciliationFrame ==
    IsIngest =>
        /\ \A k \in last.removed :
              /\ last.alerts0[k].Alert.Status = "firing"
              /\ \E i \in 1..Len(last.payload) :
                    /\ last.payload[i].Status = "resolved"
                    /\ SameLabels(last.payload[i], last.alerts0[k].Alert)
        /\ SubSeq(last.untruncated, Len(last.accepted) + 1, Len(last.untruncated))
              = Stayers
        /\ \A k \in 1..Len(Stayers) :
              IsAck(acknowledged, Stayers[k].ID) <=> IsAck(last.ack0, Stayers[k].ID)

\* Payload alert i is firing and the payload also carries a resolved alert
\* with the same labels.
ResolvedInBatch(i) ==
    /\ last.payload[i].Status = "firing"
    /\ \E j \in 1..Len(last.payload) :
          /\ last.payload[j].Status = "resolved"
          /\ last.payload[j].Labels = last.payload[i].Labels

\* C32 as claimed: after an AddWebhook whose payload carries a firing alert
\* and a resolved alert with the same labels, the entry made for the firing
\* alert is in the store.
C32_BatchFiringKept ==
    IsIngest =>
        \A i \in 1..Len(last.payload) :
            ResolvedInBatch(i) =>
                \E k \in 1..Len(alerts) :
                    alerts[k] = AlertEntry(clock, i - 1, clock, last.payload[i])

\* C32: the entries removed are positions of the store as it was when the
\* lock was taken, every firing entry there that a resolved alert of the
\* payload matches; a firing alert of the payload becomes an entry whatever
\* resolved alerts the payload carries, that entry is in the list the
\* insertion loop leaves, and it is in the store unless the truncation cuts
\* it off.
C32_MatchesStoreNotBatch ==
    IsIngest =>
        /\ last.removed =
               { k \in 1..Len(last.alerts0) :
                   /\ last.alerts0[k].Alert.Status = "firing"
                   /\ \E j \in 1..Len(last.payload) :
                          alertsMatch(last.payload[j], last.alerts0[k].Alert)
                          /\ last.payload[j].Status = "resolved" }
        /\ \A i \in 1..Len(last.payload) :
              last.payload[i].Status = "firing" =>
                  \E k \in 1..Len(last.accepted) :
                      /\ last.accepted[k] = i - 1
                      /\ Len(last.untruncated) >= Len(last.accepted) - k + 1
                      /\ NewEntry(k) = AlertEntry(clock, i - 1, clock, last.payload[i])
                      /\ Survives(k) => alerts[Len(last.accepted) - k + 1] = NewEntry(k)

\* A payload with a firing and a resolved alert of the same labels reached a
\* store with a firing entry of these labels: the old entry is removed and
\* the new firing entry is in the store.
C32_Witness ==
    /\ IsIngest
    /\ last.removed # {}
    /\ \E i \in 1..Len(last.payload) :
          /\ ResolvedInBatch(i)
          /\ \E k \in 1..Len(alerts) :
                alerts[k] = AlertEntry(clock, i - 1, clock, last.payload[i])

\* startSound returned nil in this cycle of playSoundLoop number l.
LaunchFailed(l) == loops[l].pc = "wait" /\ ~loops[l].cmd

\* C33: a loop leaves its cycle only on its closed stop channel or after
\* HasUnacknowledgedAlerts() returned false; after a failed launch its next
\* step is into the pause, unless the stop channel is closed; and a failed
\* launch is followed by another launch or by the end of the loop.
C33_LaunchFailureRetried ==
    /\ [][ \A l \in Loops :
             /\ (InCycle(l) /\ loops'[l].pc = "done")
                   => (Closed(loops[l].stopChan) \/ loops[l].pc = "quit")
             /\ (loops[l].pc # "quit" /\ loops'[l].pc = "quit")
                   => ~HasUnacknowledgedAlerts
             /\ (LaunchFailed(l) /\ loops'[l] # loops[l])
                   => (loops'[l].pc = "sleep"
                       \/ (Closed(loops[l].stopChan) /\ loops'[l].pc = "done")) ]_vars
    /\ \A l \in Loops : LaunchFailed(l) ~> (loops[l].pc \in {"start", "done"})

\* A launch has failed while an unacknowledged firing entry is stored and the
\* stop channel of the loop is open.
C33_Witness ==
    \E l \in Loops :
        /\ LaunchFailed(l)
        /\ HasUnacknowledgedAlerts
        /\ ~Closed(loops[l].stopChan)

\* The ids of the entries of a list.
IdsOf(entries) == { entries[k].ID : k \in 1..Len(entries) }

\* C34: an Acknowledge of an id that no stored entry carries changes neither
\* what GetAlerts may return nor HasUnacknowledgedAlerts(), and every entry an
\* AddWebhook creates is unacknowledged when the call returns.
C34_StaleAckNoEffect ==
    /\ (last.op = "Acknowledge" /\ last.id \notin IdsOf(last.alerts0)) =>
          /\ HasUnack(alerts, acknowledged) = HasUnack(last.alerts0, last.ack0)
          /\ SortedCopies(alerts, acknowledged) = SortedCopies(last.alerts0, last.ack0)
    /\ IsIngest =>
          \A k \in 1..Len(last.accepted) : ~IsAck(acknowledged, NewEntry(k).ID)

\* C35: when checkAndPlaySound takes its stop branch (it closes the stop
\* channel, kills the current process and clears soundPlaying), the store
\* holds no firing entry that is not acknowledged.
C35_NoStaleStop ==
    [][ soundStopChan' # soundStopChan => ~HasUnacknowledgedAlerts ]_vars

\* C36: a step of a playSoundLoop goroutine changes the state of no process
\* but its own, changes currentSoundCmd only when the handle is nil or refers
\* to its own command, and clears soundPlaying only when no other loop in its
\* cycle has captured a later stop channel (such a loop passed the guard, and
\* set the flag, after this one).
C36_OwnProcessOnly ==
    [][ \A l \in Loops :
          loops'[l] # loops[l] =>
             /\ \A m \in Loops \ {l} : procs'[m] = procs[m]
             /\ currentSoundCmd' # currentSoundCmd => currentSoundCmd \in {0, l}
             /\ (soundPlaying /\ ~soundPlaying') =>
                   \A m \in Loops \ {l} :
                       InCycle(m) => loops[m].stopChan <= loops[l].stopChan ]_vars

\* C37: whenever soundPlaying is true a playSoundLoop goroutine is inside its
\* cycle with its stop channel open.
C37_FlagHasLoop ==
    soundPlaying => \E l \in Loops : InCycle(l) /\ ~Closed(loops[l].stopChan)

\* soundPlaying is true after a stop: an earlier loop has returned and a
\* loop that captured the new channel is in its cycle.
C37_Witness ==
    /\ soundPlaying
    /\ soundStopChan >= 1
    /\ \E l, m \in Loops :
          /\ loops[m].pc = "done"
          /\ InCycle(l)
          /\ loops[l].stopChan = soundStopChan

\* Hub.run has put the client into h.clients at some time
\* (src/Dockerfile:133).
Registered(c) ==
    /\ conns[c].pc \in {"open", "unregister", "gone"}
    /\ ~(hub.pc = "register" /\ hub.client = c)

\* C38: h.clients holds exactly the clients that were registered and whose
\* channel is open; the clients the fan-out still has to send to, or to
\* close, are in the map, and so is a client whose channel the unregister
\* case is about to close: no send and no close meets a closed channel.
C38_ClosedOnce ==
    /\ \A c \in Clients : c \in clients <=> (Registered(c) /\ send[c].open)
    /\ hub.pc = "fanout" => \A c \in hub.todo : c \in clients /\ send[c].open
    /\ (hub.pc = "unregister" /\ hub.client \in clients) => send[hub.client].open

\* The unregister of a client arrives after the fan-out has dropped the
\* client with a full buffer.
C38_Witness ==
    /\ hub.pc = "unregister"
    /\ hub.client \notin clients
    /\ ~send[hub.client].open
    /\ Len(send[hub.client].buf) = SendCap

\* C39: the snapshot Hub.run takes from h.broadcast for a fan-out to the
\* registered clients is never older than a snapshot it has taken before: a
\* snapshot made before a mutation is not delivered after one that reflects
\* the mutation.
C39_NoStaleAfterFresh ==
    [][ (hub.pc = "select" /\ hub'.pc = "fanout" /\ hub'.todo # {})
            => hub'.message >= hub.received ]_vars

\* The accepted alerts of the payload that are resolved: each became an entry
\* with status resolved.
ResolvedCreated ==
    { k \in 1..Len(last.accepted) : last.payload[last.accepted[k] + 1].Status = "resolved" }

\* C40: an AddWebhook creates at most as many resolved entries as its
\* reconciliation removed firing entries.
C40_ResolvedAtMostRemoved ==
    IsIngest => Cardinality(ResolvedCreated) <= Cardinality(last.removed)

====
